---- MODULE Spec2Model ----
(***************************************************************************)
(* Schedule solution analysis of StaffSchedulingWeb: the decoder           *)
(* (parseSolutionFile), the assignment query (getShiftsForCell), the hours *)
(* aggregation (getEmployeeStats) and the ScheduleTable component in       *)
(* single and in compare mode, the upload of a solution file, the schedule *)
(* API that stores it and the batch fetch of schedules for comparison.     *)
(*                                                                         *)
(* Text that the code only compares for equality (variable keys, cell      *)
(* keys, abbreviations, colors) is a TLA+ string built with the code's own *)
(* template; text that the code searches (name, level, id, search term)    *)
(* is a sequence of one-character strings.  A Date is the number of        *)
(* minutes since 2024-10-01T00:00Z.  An optional field is a sequence of    *)
(* length 0 (absent) or 1 (present).                                       *)
(***************************************************************************)
EXTENDS Integers, Sequences, FiniteSets, TLC

VARIABLES
    timezoneOffset, \* minutes the platform's local time is ahead of UTC
    raw,            \* the raw document the schedule API returned (optional)
    schedule,       \* useSchedule's data: the decoded solution (optional)
    queryError,     \* useSchedule's query function threw
    rows,           \* rows of the single-mode ScheduleTable once rendered
    mounted,        \* mode the ScheduleTable is mounted in
    schedules,      \* props.schedules of the compare-mode ScheduleTable
    searchTerm,     \* the component's searchTerm state
    compareView,    \* what the compare-mode render produced
    uploadError,    \* ScheduleFileUpload shows its error text
    pendingSolution, \* SchedulePage's pendingSolution state (optional)
    stored,         \* the selected schedule's solution written by the API (optional)
    postStatus,     \* HTTP status of the last POST /api/schedule, 0 before any
    batch,          \* the running useMultipleSchedules query (optional)
    repository,     \* per case: schedules.json and the schedule_<id>.json files
    inflight,       \* saveSchedule calls that run concurrently
    lastCall,       \* the repository call or request that completed last
    jobs,           \* per case: the jobs of jobs.json
    globalWishes    \* per case: the employees of global_wishes_and_blocked.json

pageVars == <<uploadError, pendingSolution, stored, postStatus>>

\* What the browser holds
clientVars == <<raw, schedule, queryError, rows, mounted, schedules, searchTerm,
                compareView, pageVars>>

\* What the server holds on disk, and the calls that work on it
serverVars == <<repository, inflight, lastCall, jobs, globalWishes>>

vars == <<timezoneOffset, clientVars, batch, serverVars>>

----------------------------------------------------------------------------
(* Bounds of the model *)

NumDays == 2          \* calendar dates the documents range over
MaxAssigned == 2      \* variables with value 1 in a document
MaxShiftWishes == 2   \* shift_wishes entries of an employee
MaxSchedules == 2     \* schedules handed to the comparison

----------------------------------------------------------------------------
(* Generic helpers *)

None == <<>>
Some(x) == <<x>>

Abs(n) == IF n < 0 THEN -n ELSE n

BoundedSeqs(S, n) == UNION {[1..k -> S] : k \in 0..n}

\* Array.prototype.includes
Includes(arr, x) == \E i \in 1..Len(arr) : arr[i] = x

\* Array.prototype.map
RECURSIVE MapSeq(_, _)
MapSeq(F(_), arr) ==
    IF arr = <<>> THEN <<>> ELSE <<F(Head(arr))>> \o MapSeq(F, Tail(arr))

\* Array.prototype.find: the first matching element, optional
RECURSIVE Find(_, _)
Find(P(_), arr) ==
    IF arr = <<>> THEN None
    ELSE IF P(Head(arr)) THEN Some(Head(arr))
    ELSE Find(P, Tail(arr))

----------------------------------------------------------------------------
(* Dates: new Date("YYYY-MM-DD"), toISOString().split('T')[0], getDate() *)

MinutesPerDay == 24 * 60

\* Civil date of a day number counted from 2024-10-01 (September to November 2024)
CivilFromDays(n) ==
    IF n < 0 THEN [y |-> 2024, m |-> 9, d |-> 30 + n + 1]
    ELSE IF n < 31 THEN [y |-> 2024, m |-> 10, d |-> n + 1]
    ELSE [y |-> 2024, m |-> 11, d |-> n - 30]

Pad2(n) == IF n < 10 THEN "0" \o ToString(n) ELSE ToString(n)

ISODateOfDay(n) ==
    LET c == CivilFromDays(n)
    IN  ToString(c.y) \o "-" \o Pad2(c.m) \o "-" \o Pad2(c.d)

\* Day number of a civil date of September to November 2024
DaysFromCivil(m, d) ==
    IF m = 9 THEN d - 31 ELSE IF m = 10 THEN d - 1 ELSE 30 + d

DigitValue(c) == CHOOSE n \in 0..9 : ToString(n) = c

ParseInt2(text) == 10 * DigitValue(SubSeq(text, 1, 1)) + DigitValue(SubSeq(text, 2, 2))

\* new Date(day): a date-only ISO string "YYYY-MM-DD" is midnight UTC of
\* that date
NewDate(str) ==
    MinutesPerDay * DaysFromCivil(ParseInt2(SubSeq(str, 6, 7)), ParseInt2(SubSeq(str, 9, 10)))

\* day.toISOString().split('T')[0]: the UTC calendar date
toISODate(day) == ISODateOfDay(day \div MinutesPerDay)

\* day.getDate(): the day of the month in the platform's local time
getDate(day, tz) == CivilFromDays((day + tz) \div MinutesPerDay).d

----------------------------------------------------------------------------
(* Keys *)

\* `(${empId}, '${dateStr}', ${shift.id})`
VarKey(empId, dateStr, shiftId) ==
    "(" \o ToString(empId) \o ", '" \o dateStr \o "', " \o ToString(shiftId) \o ")"

\* `${employee.id}-${dateStr}`
CellKey(empId, dateStr) == ToString(empId) \o "-" \o dateStr

\* Plausible slip: a truthiness test on the key's presence instead of === 1
IsOnePresent(variables, key) == key \in DOMAIN variables

\* variables[key] === 1
IsOne(variables, key) == key \in DOMAIN variables /\ variables[key] = 1

\* x || fallback, for an optional x
OrElse(opt, fallback) == IF opt = None THEN fallback ELSE opt[1]

----------------------------------------------------------------------------
(* schedule-parser: getShiftForCell, getShiftsForCell *)

\* The first assigned catalog shift, optional (null when none)
RECURSIVE getShiftForCell(_, _, _, _)
getShiftForCell(empId, day, shifts, variables) ==
    IF shifts = <<>> THEN None
    ELSE IF IsOne(variables, VarKey(empId, toISODate(day), Head(shifts).id))
         THEN Some(Head(shifts))
         ELSE getShiftForCell(empId, day, Tail(shifts), variables)

\* Plausible slip: the single-shift query answers the multi-shift one
getShiftsForCellFirstOnly(empId, day, shifts, variables) ==
    getShiftForCell(empId, day, shifts, variables)

\* Every assigned catalog shift, in catalog order
RECURSIVE getShiftsForCell(_, _, _, _)
getShiftsForCell(empId, day, shifts, variables) ==
    IF shifts = <<>> THEN <<>>
    ELSE (IF IsOne(variables, VarKey(empId, toISODate(day), Head(shifts).id))
          THEN <<Head(shifts)>> ELSE <<>>)
         \o getShiftsForCell(empId, day, Tail(shifts), variables)

----------------------------------------------------------------------------
(* schedule-parser: parseSolutionFile *)

createEmptyStats ==
    [forward_rotation_violations |-> 0, consecutive_working_days_gt_5 |-> 0,
     no_free_weekend |-> 0, consecutive_night_shifts_gt_3 |-> 0,
     total_overtime_hours |-> 0, no_free_days_around_weekend |-> 0,
     not_free_after_night_shift |-> 0, violated_wish_total |-> 0]

\* The employees.map of the decoder: the availability lists default to []
NormalizeEmployee(emp) ==
    [id |-> emp.id, name |-> emp.name, level |-> emp.level,
     target_working_time |-> emp.target_working_time,
     wishes |-> emp.wishes,
     vacation_days |-> OrElse(emp.vacation_days, <<>>),
     forbidden_days |-> OrElse(emp.forbidden_days, <<>>),
     vacation_shifts |-> OrElse(emp.vacation_shifts, <<>>),
     forbidden_shifts |-> OrElse(emp.forbidden_shifts, <<>>)]

\* Plausible slip: the scan stops at the first catalog shift
HasShiftFirstCatalogEntry(employee, dateStr, shifts, variables) ==
    shifts # <<>> /\ IsOne(variables, VarKey(employee.id, dateStr, shifts[1].id))

\* const hasShift = shifts.some(...)
HasShift(employee, dateStr, shifts, variables) ==
    \E i \in 1..Len(shifts) :
        IsOne(variables, VarKey(employee.id, dateStr, shifts[i].id))

\* shifts.find((s) => s.abbreviation === abbreviation)
FindShiftByAbbreviation(shifts, abbreviation) ==
    Find(LAMBDA s : s.abbreviation = abbreviation, shifts)

\* shiftWishes.map(find color).filter(Boolean): undefined and "" are dropped
RECURSIVE WishColors(_, _)
WishColors(shiftWishes, shifts) ==
    IF shiftWishes = <<>> THEN <<>>
    ELSE LET shift == FindShiftByAbbreviation(shifts, Head(shiftWishes)[2])
         IN  (IF shift # None /\ shift[1].color # "" THEN <<shift[1].color>> ELSE <<>>)
             \o WishColors(Tail(shiftWishes), shifts)

\* const hasWishedShift = shiftWishes.some(...)
HasWishedShift(shiftWishes, employee, dateStr, shifts, variables) ==
    \E k \in 1..Len(shiftWishes) :
        LET shift == FindShiftByAbbreviation(shifts, shiftWishes[k][2])
        IN  /\ shift # None
            /\ IsOne(variables, VarKey(employee.id, dateStr, shift[1].id))

\* employee.wishes.day_off_wishes and employee.wishes.shift_wishes of an
\* employee that carries them; the decoder copies wishes as it is (...emp)
DayOffWishesOf(employee) == employee.wishes[1].day_off_wishes[1]
ShiftWishesOf(employee) == employee.wishes[1].shift_wishes[1]

\* employee.wishes.day_off_wishes.includes(...) and
\* employee.wishes.shift_wishes.filter(...) read a property of undefined
\* when wishes or one of its two lists is missing: a TypeError
ParseCellThrows(employee) ==
    \/ employee.wishes = None
    \/ employee.wishes[1].day_off_wishes = None
    \/ employee.wishes[1].shift_wishes = None

\* Plausible slip: the if (!hasShift) sits outside the day-off wish block
DayOffFulfilledOutsideWish(isDayOffWish, hasShift) == ~hasShift

\* fulfilledDayOffCells.add is nested in the day-off wish block, under
\* if (!hasShift)
DayOffFulfilled(isDayOffWish, hasShift) == isDayOffWish /\ ~hasShift

\* The body of days.forEach inside employees.forEach
ParseCell(acc, employee, day, shifts, variables, tz) ==
    LET dateStr == toISODate(day)
        cellKey == CellKey(employee.id, dateStr)
        isDayOffWish == Includes(DayOffWishesOf(employee), getDate(day, tz))
        hasShift == HasShift(employee, dateStr, shifts, variables)
        shiftWishes == SelectSeq(ShiftWishesOf(employee),
                                 LAMBDA w : w[1] = getDate(day, tz))
        colors == WishColors(shiftWishes, shifts)
        hasWishedShift == HasWishedShift(shiftWishes, employee, dateStr, shifts, variables)
    IN  [allDayOffWishCells |->
             IF isDayOffWish THEN acc.allDayOffWishCells \cup {cellKey}
             ELSE acc.allDayOffWishCells,
         fulfilledDayOffCells |->
             IF DayOffFulfilled(isDayOffWish, hasShift)
             THEN acc.fulfilledDayOffCells \cup {cellKey}
             ELSE acc.fulfilledDayOffCells,
         allShiftWishColors |->
             IF Len(shiftWishes) > 0 /\ Len(colors) > 0
             THEN [k \in DOMAIN acc.allShiftWishColors \cup {cellKey} |->
                      IF k = cellKey THEN colors ELSE acc.allShiftWishColors[k]]
             ELSE acc.allShiftWishColors,
         fulfilledShiftWishCells |->
             IF Len(shiftWishes) > 0 /\ ~hasWishedShift /\ ~isDayOffWish
             THEN acc.fulfilledShiftWishCells \cup {cellKey}
             ELSE acc.fulfilledShiftWishCells]

RECURSIVE ParseDays(_, _, _, _, _, _)
ParseDays(acc, employee, days, shifts, variables, tz) ==
    IF days = <<>> THEN acc
    ELSE ParseDays(ParseCell(acc, employee, Head(days), shifts, variables, tz),
                   employee, Tail(days), shifts, variables, tz)

RECURSIVE ParseEmployees(_, _, _, _, _, _)
ParseEmployees(acc, employees, days, shifts, variables, tz) ==
    IF employees = <<>> THEN acc
    ELSE ParseEmployees(ParseDays(acc, Head(employees), days, shifts, variables, tz),
                        Tail(employees), days, shifts, variables, tz)

EmptyDerived ==
    [allDayOffWishCells |-> {}, fulfilledDayOffCells |-> {},
     allShiftWishColors |-> <<>>, fulfilledShiftWishCells |-> {}]

\* parseSolutionFile throws: jsonData.days.map on a missing days field, or
\* the first cell of an employee whose wishes are incomplete (the loops
\* reach a cell only when there is a day)
parseSolutionFileThrows(jsonData) ==
    \/ jsonData.days = None
    \/ /\ jsonData.days[1] # <<>>
       /\ \E i \in 1..Len(OrElse(jsonData.employees, <<>>)) :
              ParseCellThrows(OrElse(jsonData.employees, <<>>)[i])

\* parseSolutionFile of a document on which it does not throw; tz is the
\* platform timezone that day.getDate() reads
parseSolutionFile(jsonData, tz) ==
    LET variables == OrElse(jsonData.variables, <<>>)
        employees == MapSeq(NormalizeEmployee, OrElse(jsonData.employees, <<>>))
        shifts == OrElse(jsonData.shifts, <<>>)
        days == MapSeq(NewDate, jsonData.days[1])
        stats == OrElse(jsonData.stats, createEmptyStats)
        derived == ParseEmployees(EmptyDerived, employees, days, shifts, variables, tz)
    IN  [variables |-> variables, employees |-> employees, shifts |-> shifts,
         days |-> days, stats |-> stats,
         fulfilledDayOffCells |-> derived.fulfilledDayOffCells,
         fulfilledShiftWishCells |-> derived.fulfilledShiftWishCells,
         allDayOffWishCells |-> derived.allDayOffWishCells,
         allShiftWishColors |-> derived.allShiftWishColors]

----------------------------------------------------------------------------
(* schedule-parser: getEmployeeStats.  Hours are exact fractions num/den. *)

Frac(n, d) == [num |-> n, den |-> d]
FracSub(a, b) == Frac(a.num * b.den - b.num * a.den, a.den * b.den)
FracAbs(a) == Frac(Abs(a.num), a.den)
FracGt(a, b) == a.num * b.den > b.num * a.den
FracEq(a, b) == a.num * b.den = b.num * a.den

\* The tolerance literal 7.67 of getEmployeeStats
OvertimeTolerance == Frac(767, 100)

RECURSIVE SumDurations(_)
SumDurations(shiftsForDay) ==
    IF shiftsForDay = <<>> THEN 0
    ELSE Head(shiftsForDay).duration + SumDurations(Tail(shiftsForDay))

\* Plausible slip: the loop still calls the single-shift getShiftForCell and
\* counts at most one shift per day
RECURSIVE AccumulateDaysFirstShift(_, _, _, _)
AccumulateDaysFirstShift(employee, days, shifts, variables) ==
    IF days = <<>> THEN <<0, 0>>
    ELSE LET shiftsForDay == getShiftForCell(employee.id, Head(days), shifts, variables)
             rest == AccumulateDaysFirstShift(employee, Tail(days), shifts, variables)
         IN  <<SumDurations(shiftsForDay) + rest[1], Len(shiftsForDay) + rest[2]>>

\* The days.forEach of getEmployeeStats: <<totalMinutes, totalShifts>>
RECURSIVE AccumulateDays(_, _, _, _)
AccumulateDays(employee, days, shifts, variables) ==
    IF days = <<>> THEN <<0, 0>>
    ELSE LET shiftsForDay == getShiftsForCell(employee.id, Head(days), shifts, variables)
             rest == AccumulateDays(employee, Tail(days), shifts, variables)
         IN  <<SumDurations(shiftsForDay) + rest[1], Len(shiftsForDay) + rest[2]>>

\* Plausible slip: Math.abs is forgotten, only an excess is flagged
HasOvertimeNoAbs(actualHours, targetHours) ==
    FracGt(FracSub(actualHours, targetHours), OvertimeTolerance)

\* Math.abs(actualHours - targetHours) > 7.67
HasOvertime(actualHours, targetHours) ==
    FracGt(FracAbs(FracSub(actualHours, targetHours)), OvertimeTolerance)

\* Plausible slip: the days listed in vacation_days are left out of the
\* totals
getEmployeeStatsSkippingVacation(employee, days, shifts, variables) ==
    LET worked == SelectSeq([j \in 1..Len(days) |-> j],
                            LAMBDA j : ~Includes(employee.vacation_days, j))
        totals == AccumulateDays(employee, [n \in 1..Len(worked) |-> days[worked[n]]],
                                 shifts, variables)
        actualHours == Frac(totals[1], 60)
        targetHours == Frac(employee.target_working_time, 60)
    IN  [actualHours |-> actualHours, targetHours |-> targetHours,
         totalShifts |-> totals[2],
         hasOvertime |-> HasOvertime(actualHours, targetHours)]

getEmployeeStats(employee, days, shifts, variables) ==
    LET totals == AccumulateDays(employee, days, shifts, variables)
        actualHours == Frac(totals[1], 60)
        targetHours == Frac(employee.target_working_time, 60)
    IN  [actualHours |-> actualHours, targetHours |-> targetHours,
         totalShifts |-> totals[2],
         hasOvertime |-> HasOvertime(actualHours, targetHours)]

----------------------------------------------------------------------------
(* Searched text: toLowerCase, includes, Number.prototype.toString *)

UpperLetters == <<"A","B","C","D","E","F","G","H","I","J","K","L","M",
                  "N","O","P","Q","R","S","T","U","V","W","X","Y","Z">>
LowerLetters == <<"a","b","c","d","e","f","g","h","i","j","k","l","m",
                  "n","o","p","q","r","s","t","u","v","w","x","y","z">>

LowerChar(c) ==
    IF \E i \in 1..26 : UpperLetters[i] = c
    THEN LowerLetters[CHOOSE i \in 1..26 : UpperLetters[i] = c]
    ELSE c

\* String.prototype.toLowerCase
toLowerCase(text) == [i \in 1..Len(text) |-> LowerChar(text[i])]

\* String.prototype.includes
StringIncludes(text, part) ==
    \E i \in 0..(Len(text) - Len(part)) : SubSeq(text, i + 1, i + Len(part)) = part

DigitChars == <<"0","1","2","3","4","5","6","7","8","9">>

\* id.toString() of a non-negative integer
RECURSIVE toString(_)
toString(n) ==
    IF n < 10 THEN <<DigitChars[n + 1]>>
    ELSE toString(n \div 10) \o <<DigitChars[(n % 10) + 1]>>

----------------------------------------------------------------------------
(* ScheduleTable *)

\* Plausible slip: a blocked day also blocks each of its shifts
unavailableDayBlocksShifts(employee, day, shift) ==
    \/ Includes(employee.vacation_days, day) \/ Includes(employee.forbidden_days, day)
    \/ /\ shift # None
       /\ \/ \E i \in 1..Len(employee.vacation_shifts) :
                 /\ employee.vacation_shifts[i][1] = day
                 /\ employee.vacation_shifts[i][2] = shift[1].abbreviation
          \/ \E i \in 1..Len(employee.forbidden_shifts) :
                 /\ employee.forbidden_shifts[i][1] = day
                 /\ employee.forbidden_shifts[i][2] = shift[1].abbreviation

\* unavailable(employee, day) and unavailable(employee, day, shift); the
\* optional third argument is None or Some(shift)
unavailable(employee, day, shift) ==
    IF shift = None
    THEN Includes(employee.vacation_days, day) \/ Includes(employee.forbidden_days, day)
    ELSE \/ \E i \in 1..Len(employee.vacation_shifts) :
                /\ employee.vacation_shifts[i][1] = day
                /\ employee.vacation_shifts[i][2] = shift[1].abbreviation
         \/ \E i \in 1..Len(employee.forbidden_shifts) :
                /\ employee.forbidden_shifts[i][1] = day
                /\ employee.forbidden_shifts[i][2] = shift[1].abbreviation

\* One <td> of the single-mode table
RenderCell(employee, day, dayIdx, sol) ==
    LET dateStr == toISODate(day)
        cellKey == CellKey(employee.id, dateStr)
    IN  [cellKey |-> cellKey,
         shiftsForCell |-> getShiftsForCell(employee.id, day, sol.shifts, sol.variables),
         isDayOffFulfilled |-> cellKey \in sol.fulfilledDayOffCells,
         isShiftWishFulfilled |-> cellKey \in sol.fulfilledShiftWishCells,
         hasDayOffWish |-> cellKey \in sol.allDayOffWishCells,
         shiftWishColors |-> IF cellKey \in DOMAIN sol.allShiftWishColors
                             THEN sol.allShiftWishColors[cellKey] ELSE <<>>,
         isUnavailable |-> unavailable(employee, dayIdx + 1, None),
         unavailableShifts |->
             SelectSeq(sol.shifts, LAMBDA s : unavailable(employee, dayIdx + 1, Some(s)))]

\* One <tr> of the single-mode table; dayIdx is 0-based as in days.map
RenderRow(employee, sol) ==
    [employee |-> employee,
     stats |-> getEmployeeStats(employee, sol.days, sol.shifts, sol.variables),
     cells |-> [j \in 1..Len(sol.days) |-> RenderCell(employee, sol.days[j], j - 1, sol)]]

\* The search predicate of the grouping
MatchesSearch(firstEmployee, term) ==
    \/ StringIncludes(toLowerCase(firstEmployee.name), toLowerCase(term))
    \/ StringIncludes(toLowerCase(firstEmployee.level), toLowerCase(term))
    \/ StringIncludes(toString(firstEmployee.id), term)

\* employeeMap of groupedEmployees: the employees of all schedules in
\* schedule order; a Map iterates its keys in first-insertion order
RECURSIVE AllEmployees(_)
AllEmployees(scheds) ==
    IF scheds = <<>> THEN <<>>
    ELSE Head(scheds).employees \o AllEmployees(Tail(scheds))

RECURSIVE Dedupe(_, _)
Dedupe(ids, seen) ==
    IF ids = <<>> THEN <<>>
    ELSE IF Head(ids) \in seen THEN Dedupe(Tail(ids), seen)
    ELSE <<Head(ids)>> \o Dedupe(Tail(ids), seen \cup {Head(ids)})

\* Plausible slip: a plain object instead of a Map iterates integer keys
\* in ascending order
RECURSIVE SortedIds(_)
SortedIds(idSet) ==
    IF idSet = {} THEN <<>>
    ELSE LET least == CHOOSE x \in idSet : \A y \in idSet : x <= y
         IN  <<least>> \o SortedIds(idSet \ {least})

EmployeeMapKeysAscending(scheds) ==
    SortedIds({AllEmployees(scheds)[i].id : i \in 1..Len(AllEmployees(scheds))})

EmployeeMapKeys(scheds) ==
    Dedupe([i \in 1..Len(AllEmployees(scheds)) |-> AllEmployees(scheds)[i].id], {})

EmployeeMapGet(scheds, employeeId) ==
    SelectSeq(AllEmployees(scheds), LAMBDA e : e.id = employeeId)

\* Plausible slip: the last pushed employee decides the filter
FirstEmployeeLastPushed(scheds, employeeId) ==
    EmployeeMapGet(scheds, employeeId)[Len(EmployeeMapGet(scheds, employeeId))]

\* const firstEmployee = employees[0]
FirstEmployee(scheds, employeeId) == EmployeeMapGet(scheds, employeeId)[1]

\* Plausible slip: the .filter(item => item.employee) is missing, a schedule
\* without the employee leaves a padded entry (employee None)
RECURSIVE BuildGroupPadded(_, _)
BuildGroupPadded(scheds, employeeId) ==
    IF scheds = <<>> THEN <<>>
    ELSE LET sched == Head(scheds)
             employee == Find(LAMBDA e : e.id = employeeId, sched.employees)
         IN  <<[employee |-> employee, scheduleId |-> sched.scheduleId,
                seed |-> sched.seed, scheduleData |-> sched]>>
             \o BuildGroupPadded(Tail(scheds), employeeId)

\* schedules.map(find employee).filter(item => item.employee); an entry's
\* employee is Some(record)
RECURSIVE BuildGroup(_, _)
BuildGroup(scheds, employeeId) ==
    IF scheds = <<>> THEN <<>>
    ELSE LET sched == Head(scheds)
             employee == Find(LAMBDA e : e.id = employeeId, sched.employees)
         IN  (IF employee = None THEN <<>>
              ELSE <<[employee |-> employee, scheduleId |-> sched.scheduleId,
                      seed |-> sched.seed, scheduleData |-> sched]>>)
             \o BuildGroup(Tail(scheds), employeeId)

RECURSIVE GroupsOf(_, _, _)
GroupsOf(keys, scheds, term) ==
    IF keys = <<>> THEN <<>>
    ELSE (IF term = <<>> \/ MatchesSearch(FirstEmployee(scheds, Head(keys)), term)
          THEN <<BuildGroup(scheds, Head(keys))>> ELSE <<>>)
         \o GroupsOf(Tail(keys), scheds, term)

\* The groupedEmployees memo in compare mode
groupedEmployees(scheds, term) == GroupsOf(EmployeeMapKeys(scheds), scheds, term)

\* The first memo of the component in compare mode reads
\* props.schedules[0].employees: on an empty list firstSchedule is
\* undefined and the read throws a TypeError
ExtractCommonDataThrows(scheds) == Len(scheds) = 0

\* One render of the compare-mode ScheduleTable, in the order of the code:
\* the memos run first, the empty-list early return comes after them
RenderCompare(scheds, term) ==
    IF ExtractCommonDataThrows(scheds)
    THEN [status |-> "TypeError", groups |-> <<>>]
    ELSE LET groups == groupedEmployees(scheds, term)
         IN  IF Len(scheds) = 0 THEN [status |-> "noSchedules", groups |-> groups]
             ELSE IF Len(groups) = 0 THEN [status |-> "noEmployees", groups |-> groups]
             ELSE [status |-> "table", groups |-> groups]

----------------------------------------------------------------------------
(* Inputs: the documents, schedules and search terms the model ranges over *)

\* The first modelled date, 2024-10-31: the dates cross a month boundary
FirstDay == DaysFromCivil(10, 31)

ModelDates == {ISODateOfDay(FirstDay + i) : i \in 0..(NumDays - 1)}

\* The days field: every run of consecutive dates
DayLists ==
    {[k \in 1..n |-> ISODateOfDay(FirstDay + first + k - 1)] :
        first \in 0..(NumDays - 1), n \in 1..NumDays} \cap BoundedSeqs(ModelDates, NumDays)

ShiftF == [id |-> 1, name |-> "Frueh", abbreviation |-> "F", color |-> "#fde047",
           duration |-> 480, is_exclusive |-> FALSE]
ShiftS == [id |-> 2, name |-> "Spaet", abbreviation |-> "S", color |-> "#38bdf8",
           duration |-> 460, is_exclusive |-> FALSE]

Catalogs == {<<ShiftF>>, <<ShiftF, ShiftS>>, <<ShiftS, ShiftF>>}

RawEmployee(id, name, level, target, dayOffWishes, shiftWishes) ==
    [id |-> id, name |-> name, level |-> level, target_working_time |-> target,
     wishes |-> Some([shift_wishes |-> Some(shiftWishes),
                      day_off_wishes |-> Some(dayOffWishes)]),
     vacation_days |-> None, forbidden_days |-> None,
     vacation_shifts |-> None, forbidden_shifts |-> None]

DayOffWishOptions == {<<>>, <<1>>, <<31, 1>>}
WishPairs == {<<1, "F">>, <<1, "S">>, <<1, "X">>}
\* Lists of up to MaxShiftWishes different wishes
ShiftWishOptions ==
    {sw \in BoundedSeqs(WishPairs, MaxShiftWishes) :
        \A a, b \in 1..Len(sw) : a # b => sw[a] # sw[b]}
TargetOptions == {19, 20, 940, 941}

\* The four availability lists of an employee, each absent or present
Availability(vacationDays, forbiddenDays, vacationShifts, forbiddenShifts) ==
    [vacation_days |-> vacationDays, forbidden_days |-> forbiddenDays,
     vacation_shifts |-> vacationShifts, forbidden_shifts |-> forbiddenShifts]

AvailabilityOptions ==
    {Availability(Some(<<1>>), None, None, None),
     Availability(None, Some(<<2>>), None, None),
     Availability(None, None, Some(<<<<1, "F">>>>), None),
     Availability(None, None, None, Some(<<<<2, "S">>>>)),
     Availability(Some(<<1>>), None, None, Some(<<<<2, "F">>>>)),
     Availability(Some(<<2>>), Some(<<1, 2>>), Some(<<<<1, "S">>>>),
                  Some(<<<<1, "F">>, <<2, "F">>>>)),
     Availability(Some(<<>>), Some(<<>>), Some(<<>>), Some(<<>>))}

\* Employee 5 with a day-off wish for the 1st and some availability lists
Employee5Blocked ==
    {[RawEmployee(5, <<"E","v","a">>, <<"R","N">>, 940, <<1>>, <<>>) EXCEPT
         !.vacation_days = a.vacation_days, !.forbidden_days = a.forbidden_days,
         !.vacation_shifts = a.vacation_shifts, !.forbidden_shifts = a.forbidden_shifts] :
        a \in AvailabilityOptions}

\* Employee 5 varies in its wishes, in its target or in its availability
Employee5Options ==
    {RawEmployee(5, <<"E","v","a">>, <<"R","N">>, 940, dow, sw) :
        dow \in DayOffWishOptions, sw \in ShiftWishOptions}
    \cup {RawEmployee(5, <<"E","v","a">>, <<"R","N">>, t, <<>>, <<>>) : t \in TargetOptions}
    \cup Employee5Blocked

Employee7 == RawEmployee(7, <<"A","n","n">>, <<"R","N">>, 20, <<1>>, <<>>)

\* The keys a document may set to 1
AssignableKeys ==
    {VarKey(5, d, s) : d \in ModelDates, s \in {1, 2}}
    \cup {VarKey(7, ISODateOfDay(FirstDay + 1), 1)}

ZeroKey == VarKey(5, ISODateOfDay(FirstDay + 1), 1)

\* Keys that encode no cell of any modelled document: written without the
\* blanks of the template, naming a shift id outside the catalog, naming an
\* unknown employee, naming a date after the last modelled one
StrayKeys ==
    {"(5,'" \o ISODateOfDay(FirstDay + 1) \o "',1)",
     VarKey(5, ISODateOfDay(FirstDay + 1), 9),
     VarKey(8, ISODateOfDay(FirstDay + 1), 1),
     VarKey(5, ISODateOfDay(FirstDay + NumDays), 1)}

\* The variables field: up to MaxAssigned keys with value 1, possibly one
\* more key with value 0, possibly the stray keys with value 1
VariableMaps ==
    {[k \in A |-> 1] : A \in {B \in SUBSET AssignableKeys : Cardinality(B) <= MaxAssigned}}
    \cup {[k \in A \cup {ZeroKey} |-> IF k = ZeroKey THEN 0 ELSE 1] :
            A \in SUBSET {VarKey(5, ISODateOfDay(FirstDay + 1), 2)}}
    \cup {[k \in A \cup StrayKeys \cup {ZeroKey} |-> IF k = ZeroKey THEN 0 ELSE 1] :
            A \in SUBSET {VarKey(5, ISODateOfDay(FirstDay + 1), 2)}}

RawDocument(variables, employees, shifts, days) ==
    [variables |-> Some(variables), employees |-> Some(employees),
     shifts |-> Some(shifts), days |-> Some(days), stats |-> None]

\* Employees of the schedules under comparison: id 7 is recorded
\* differently in two solutions
Ann7 == RawEmployee(7, <<"A","n","n">>, <<"R","N">>, 480, <<>>, <<>>)
Bob7 == RawEmployee(7, <<"B","o","b">>, <<"L","P","N">>, 480, <<>>, <<>>)
Cy9 == RawEmployee(9, <<"C","y">>, <<"R","N">>, 480, <<>>, <<>>)

CompareEmployeeLists ==
    {<<>>, <<Ann7>>, <<Bob7>>, <<Cy9>>, <<Ann7, Cy9>>, <<Cy9, Bob7>>, <<Cy9, Ann7>>}

CompareDocument(employees) ==
    RawDocument([k \in {VarKey(7, ISODateOfDay(FirstDay + 1), 1)} |-> 1],
                employees, <<ShiftF>>, <<ISODateOfDay(FirstDay + 1)>>)

\* { ...parsedSolution, scheduleId, seed }
TagSchedule(sol, scheduleId, seed) ==
    [variables |-> sol.variables, employees |-> sol.employees, shifts |-> sol.shifts,
     days |-> sol.days, stats |-> sol.stats,
     fulfilledDayOffCells |-> sol.fulfilledDayOffCells,
     fulfilledShiftWishCells |-> sol.fulfilledShiftWishCells,
     allDayOffWishCells |-> sol.allDayOffWishCells,
     allShiftWishColors |-> sol.allShiftWishColors,
     scheduleId |-> scheduleId, seed |-> seed]

\* Schedule k is stored under id "s<k>" with seed 11 * k
CompareSchedule(k, employees, tz) ==
    TagSchedule(parseSolutionFile(CompareDocument(employees), tz),
                "s" \o ToString(k), 11 * k)

\* Lists of up to MaxSchedules distinct schedules, in any order
CompareInputs(tz) ==
    UNION {{[i \in 1..n |-> CompareSchedule(order[i], lists[i], tz)] :
               order \in {o \in [1..n -> 1..MaxSchedules] :
                             \A i, j \in 1..n : i # j => o[i] # o[j]},
               lists \in [1..n -> CompareEmployeeLists]} :
           n \in 0..MaxSchedules}

SearchTerms == {<<>>, <<"a","n">>, <<"B">>, <<"7">>, <<"r">>, <<"c","y">>}

\* A platform behind UTC (UTC-5) and one ahead of it (UTC+1)
TimezoneOffsets == {-300, 60}

----------------------------------------------------------------------------
(* use-schedule: useMultipleSchedules, and GET /api/schedule/[scheduleId] *)

\* The ids under which schedules are stored, in the order of sort()
ScheduleIds == [k \in 1..MaxSchedules |-> "s" \o ToString(k)]

\* scheduleIds.sort() in the query key sorts the caller's array in place
\* before the query function maps over it (ids are distinct here)
SortScheduleIds(ids) == SelectSeq(ScheduleIds, LAMBDA id : Includes(ids, id))

\* The GET handler; read is the outcome of ScheduleRepository.getSchedule:
\* it threw, or it returned the stored solution (None for null)
GetScheduleResponse(read) ==
    IF read.failed THEN [status |-> 500, solution |-> None]
    ELSE IF read.solution = None THEN [status |-> 404, solution |-> None]
    ELSE [status |-> 200, solution |-> read.solution]

\* The async mapper of the query function for one id once its response is
\* there: a promise that is rejected or fulfilled with null or a schedule.
\* The response body has no seed, data.seed is undefined.
FetchOne(scheduleId, response, tz) ==
    IF response.status # 200
    THEN [status |-> "rejected", value |-> None, served |-> Some(response)]
    ELSE IF response.solution = None
    THEN [status |-> "fulfilled", value |-> None, served |-> Some(response)]
    ELSE IF parseSolutionFileThrows(response.solution[1])
    THEN [status |-> "rejected", value |-> None, served |-> Some(response)]
    ELSE [status |-> "fulfilled",
          value |-> Some(TagSchedule(parseSolutionFile(response.solution[1], tz),
                                     scheduleId, None)),
          served |-> Some(response)]

PendingFetch == [status |-> "pending", value |-> None, served |-> None]

\* results.filter(s => s !== null)
RECURSIVE NonNullResults(_)
NonNullResults(fetches) ==
    IF fetches = <<>> THEN <<>>
    ELSE Head(fetches).value \o NonNullResults(Tail(fetches))

\* Plausible slip: Promise.allSettled, the failed fetches are dropped
BatchResultAllSettled(fetches) ==
    IF \E i \in 1..Len(fetches) : fetches[i].status = "pending" THEN None
    ELSE Some([status |-> "success", data |-> NonNullResults(fetches)])

\* await Promise.all(schedulePromises) and the filter: rejected as soon as
\* one promise is rejected, fulfilled when all are, undecided (None) before
BatchResult(fetches) ==
    IF \E i \in 1..Len(fetches) : fetches[i].status = "rejected"
    THEN Some([status |-> "error", data |-> <<>>])
    ELSE IF \A i \in 1..Len(fetches) : fetches[i].status = "fulfilled"
    THEN Some([status |-> "success", data |-> NonNullResults(fetches)])
    ELSE None

----------------------------------------------------------------------------
(* schedule-repository and db-schedule: the files of one case directory.   *)
(* metadata is the content of schedules.json, files maps a schedule id to  *)
(* the solution in schedule_<id>.json.  generatedAt, the wall clock at the *)
(* time of saving, is left out of the entries: no operation reads it.      *)

\* The case directories of the model: cases/1 and cases/2
CaseIds == {1, 2}

\* Before any call
NoCall == [op |-> "none"]

\* defaultData of getSchedulesMetadataDb
DefaultMetadata == [schedules |-> <<>>, selectedScheduleId |-> None]

\* A case directory without schedule files
EmptyCase == [metadata |-> DefaultMetadata, files |-> <<>>]

\* schedules.findIndex(s => s.scheduleId === scheduleId): 0 for -1,
\* otherwise the 1-based position of the first match
findIndex(entries, scheduleId) ==
    IF \E i \in 1..Len(entries) : entries[i].scheduleId = scheduleId
    THEN CHOOSE i \in 1..Len(entries) :
             /\ entries[i].scheduleId = scheduleId
             /\ \A k \in 1..(i - 1) : entries[k].scheduleId # scheduleId
    ELSE 0

\* ScheduleRepository.getSchedule: a missing file reads as the default
\* { solution: null }
getSchedule(case, scheduleId) ==
    IF scheduleId \in DOMAIN case.files THEN Some(case.files[scheduleId]) ELSE None

\* ScheduleRepository.getSelectedSchedule
getSelectedSchedule(case) ==
    IF case.metadata.selectedScheduleId = None THEN None
    ELSE getSchedule(case, case.metadata.selectedScheduleId[1])

\* Lines 86-88 of saveSchedule: the solution is written to its file
WriteSolution(case, scheduleId, solution) ==
    [case EXCEPT !.files =
        [k \in DOMAIN case.files \cup {scheduleId} |->
            IF k = scheduleId THEN solution ELSE case.files[k]]]

\* Plausible slip: the entry is pushed without looking for an existing one
UpdateMetadataAlwaysPush(metadata, scheduleId, seed, solution, autoSelect) ==
    LET scheduleMetadata ==
            [scheduleId |-> scheduleId, seed |-> seed, isSelected |-> autoSelect,
             stats |-> solution.stats, comment |-> None]
        merged == Append(metadata.schedules, scheduleMetadata)
    IN  IF autoSelect
        THEN [schedules |-> [i \in 1..Len(merged) |->
                                IF merged[i].scheduleId # scheduleId
                                THEN [merged[i] EXCEPT !.isSelected = FALSE]
                                ELSE merged[i]],
              selectedScheduleId |-> Some(scheduleId)]
        ELSE [schedules |-> merged, selectedScheduleId |-> metadata.selectedScheduleId]

\* Lines 94-124 of saveSchedule, applied to the metadata read in line 91:
\* the entry is updated in place (an existing comment survives the spread)
\* or pushed, and with autoSelect the others are deselected
UpdateMetadata(metadata, scheduleId, seed, solution, autoSelect) ==
    LET existingIndex == findIndex(metadata.schedules, scheduleId)
        scheduleMetadata ==
            [scheduleId |-> scheduleId, seed |-> seed, isSelected |-> autoSelect,
             stats |-> solution.stats, comment |-> None]
        merged ==
            IF existingIndex > 0
            THEN [metadata.schedules EXCEPT ![existingIndex] =
                     [scheduleMetadata EXCEPT
                         !.comment = metadata.schedules[existingIndex].comment]]
            ELSE Append(metadata.schedules, scheduleMetadata)
    IN  IF autoSelect
        THEN [schedules |-> [i \in 1..Len(merged) |->
                                IF merged[i].scheduleId # scheduleId
                                THEN [merged[i] EXCEPT !.isSelected = FALSE]
                                ELSE merged[i]],
              selectedScheduleId |-> Some(scheduleId)]
        ELSE [schedules |-> merged, selectedScheduleId |-> metadata.selectedScheduleId]

\* ScheduleRepository.saveSchedule run without interruption
saveSchedule(case, scheduleId, seed, solution, autoSelect) ==
    [WriteSolution(case, scheduleId, solution) EXCEPT
        !.metadata = UpdateMetadata(case.metadata, scheduleId, seed, solution, autoSelect)]

\* ScheduleRepository.selectSchedule
selectSchedule(case, scheduleId) ==
    [case EXCEPT !.metadata =
        [schedules |-> [i \in 1..Len(case.metadata.schedules) |->
                           [case.metadata.schedules[i] EXCEPT
                               !.isSelected =
                                   (case.metadata.schedules[i].scheduleId = scheduleId)]],
         selectedScheduleId |-> Some(scheduleId)]]

\* ScheduleRepository.deleteSchedule with deleteScheduleFile: unlink ignores
\* a missing file
deleteSchedule(case, scheduleId) ==
    [metadata |->
        [schedules |-> SelectSeq(case.metadata.schedules,
                                 LAMBDA s : s.scheduleId # scheduleId),
         selectedScheduleId |->
             IF case.metadata.selectedScheduleId = Some(scheduleId) THEN None
             ELSE case.metadata.selectedScheduleId],
     files |-> [k \in DOMAIN case.files \ {scheduleId} |-> case.files[k]]]

\* ScheduleRepository.updateScheduleComment: throws before it writes when
\* the schedule is not listed
updateScheduleCommentThrows(case, scheduleId) ==
    findIndex(case.metadata.schedules, scheduleId) = 0

updateScheduleComment(case, scheduleId, comment) ==
    IF updateScheduleCommentThrows(case, scheduleId) THEN case
    ELSE [case EXCEPT
             !.metadata.schedules[findIndex(case.metadata.schedules, scheduleId)].comment
                 = Some(comment)]

----------------------------------------------------------------------------
(* Inputs of the upload and of the schedule API *)

FirstOfNovember == ISODateOfDay(FirstDay + 1)

Employee5Plain == RawEmployee(5, <<"E","v","a">>, <<"R","N">>, 940, <<1>>, <<>>)

\* Employee 5 without wishes, without day_off_wishes, without shift_wishes
Employee5Incomplete ==
    {[Employee5Plain EXCEPT !.wishes = None],
     [Employee5Plain EXCEPT
         !.wishes = Some([shift_wishes |-> Some(<<>>), day_off_wishes |-> None])],
     [Employee5Plain EXCEPT
         !.wishes = Some([shift_wishes |-> None, day_off_wishes |-> Some(<<1>>)])]}

ReportedStats == [createEmptyStats EXCEPT !.violated_wish_total = 3]

\* Files with the four top-level fields: with or without stats, with or
\* without days, with complete or incomplete wishes
CompleteFiles ==
    {[RawDocument(<<>>, <<employee5, Employee7>>, <<ShiftF>>, days)
         EXCEPT !.stats = stats] :
        employee5 \in Employee5Incomplete \cup {Employee5Plain},
        days \in {<<>>, <<FirstOfNovember>>},
        stats \in {None, Some(ReportedStats)}}

PlainDocument ==
    RawDocument(<<>>, <<Employee5Plain, Employee7>>, <<ShiftF>>, <<FirstOfNovember>>)

\* Files that lack one of the four top-level fields
IncompleteFiles ==
    {[PlainDocument EXCEPT !.variables = None],
     [PlainDocument EXCEPT !.employees = None],
     [PlainDocument EXCEPT !.shifts = None],
     [PlainDocument EXCEPT !.days = None]}

\* The JSON files a user may pick
UploadFiles == CompleteFiles \cup IncompleteFiles

PostBody(scheduleId, seed, solution) ==
    [scheduleId |-> scheduleId, seed |-> seed, solution |-> solution,
     autoSelect |-> TRUE]

\* Bodies a client may send to POST /api/schedule
PostBodies ==
    {PostBody(Some("s1"), Some(11), solution) :
        solution \in {None, Some(PlainDocument)} \cup {Some(d) : d \in IncompleteFiles}}
    \cup {PostBody(None, Some(11), Some(PlainDocument)),
          PostBody(Some("s1"), None, Some(PlainDocument))}

\* A stored document on which the decoder throws
UndecodableDocument ==
    RawDocument(<<>>, <<[Employee5Plain EXCEPT !.wishes = None]>>, <<ShiftF>>,
                <<FirstOfNovember>>)

\* What ScheduleRepository.getSchedule may yield for a requested id
RepositoryReads ==
    {[failed |-> TRUE, solution |-> None], [failed |-> FALSE, solution |-> None]}
    \cup {[failed |-> FALSE, solution |-> Some(doc)] :
            doc \in {CompareDocument(<<Ann7>>), CompareDocument(<<Cy9, Bob7>>),
                     UndecodableDocument}}

\* The id lists handed to useMultipleSchedules: distinct ids, any order
RequestedIds ==
    {ids \in BoundedSeqs({ScheduleIds[k] : k \in 1..MaxSchedules}, MaxSchedules) :
        /\ ids # <<>>
        /\ \A a, b \in 1..Len(ids) : a # b => ids[a] # ids[b]}

----------------------------------------------------------------------------
(* The state machine.  The model follows one interaction at a time: an      *)
(* upload, a direct API request, a fetch of the selected schedule or a      *)
(* comparison.                                                              *)

Init ==
    /\ timezoneOffset \in TimezoneOffsets
    /\ raw = None
    /\ schedule = None
    /\ queryError = FALSE
    /\ rows = None
    /\ mounted = "none"
    /\ schedules = <<>>
    /\ searchTerm = <<>>
    /\ compareView = None
    /\ uploadError = FALSE
    /\ pendingSolution = None
    /\ stored = None
    /\ postStatus = 0
    /\ batch = None
    /\ repository = [c \in CaseIds |-> EmptyCase]
    /\ inflight = <<>>
    /\ lastCall = NoCall
    /\ jobs = [c \in CaseIds |-> <<>>]
    /\ globalWishes = [c \in CaseIds |-> <<>>]

\* Nothing has happened yet on the page
Untouched ==
    /\ mounted = "none" /\ schedule = None /\ raw = None /\ ~queryError
    /\ ~uploadError /\ pendingSolution = None /\ stored = None /\ postStatus = 0
    /\ batch = None

\* The documents an earlier session left selected in the repository
RawDocuments ==
    {RawDocument(variables, <<employee5, Employee7>>, shifts, days) :
        days \in DayLists, shifts \in Catalogs, variables \in VariableMaps,
        employee5 \in Employee5Options}

\* The "Basic validation" of the upload handler
PresenceCheck(jsonData) ==
    ~(\/ jsonData.variables = None \/ jsonData.employees = None
      \/ jsonData.shifts = None \/ jsonData.days = None)

\* ScheduleFileUpload.handleFileUpload with reader.onload: a file that
\* fails the validation sets the error, any other is handed to
\* onFileLoaded, which is SchedulePage.handleFileLoaded
handleFileUpload ==
    /\ Untouched
    /\ \E jsonData \in UploadFiles :
          IF PresenceCheck(jsonData)
          THEN /\ pendingSolution' = Some(jsonData)
               /\ uploadError' = FALSE
          ELSE /\ uploadError' = TRUE
               /\ UNCHANGED pendingSolution
    /\ UNCHANGED serverVars
    /\ UNCHANGED <<timezoneOffset, raw, schedule, queryError, rows, mounted, schedules,
                   searchTerm, compareView, stored, postStatus, batch>>

\* The POST handler of /api/schedule: <<status, the selected schedule's
\* document afterwards>>.  The page saves with autoSelect, so whatever the
\* case held before, the saved solution is the selected one afterwards.
PostResponse(body, current) ==
    IF body.scheduleId = None \/ body.seed = None \/ body.solution = None
    THEN <<400, current>>
    ELSE <<200, getSelectedSchedule(saveSchedule(EmptyCase, body.scheduleId[1],
                                                 body.seed[1], body.solution[1],
                                                 body.autoSelect))>>

\* SchedulePage.handleSeedConfirm: the pending solution is saved through
\* useSaveSchedule and the dialog is closed
handleSeedConfirm ==
    /\ pendingSolution # None
    /\ LET response == PostResponse(PostBody(Some("s1"), Some(11), pendingSolution), stored)
       IN  /\ postStatus' = response[1]
           /\ stored' = response[2]
           /\ pendingSolution' = IF response[1] = 200 THEN None ELSE pendingSolution
    /\ UNCHANGED serverVars
    /\ UNCHANGED <<timezoneOffset, raw, schedule, queryError, rows, mounted, schedules,
                   searchTerm, compareView, uploadError, batch>>

\* POST /api/schedule called by a client of the API
POST ==
    /\ Untouched
    /\ \E body \in PostBodies :
          LET response == PostResponse(body, stored)
          IN  /\ postStatus' = response[1]
              /\ stored' = response[2]
    /\ UNCHANGED serverVars
    /\ UNCHANGED <<timezoneOffset, raw, schedule, queryError, rows, mounted, schedules,
                   searchTerm, compareView, uploadError, pendingSolution, batch>>

\* useSchedule: the selected schedule's document arrives and is decoded;
\* when the decoder throws the query ends in its error state.  (A response
\* without a solution leaves the data null, which changes nothing here.)
FetchSchedule ==
    /\ mounted = "none"
    /\ schedule = None
    /\ raw = None
    /\ ~uploadError /\ pendingSolution = None /\ postStatus # 400 /\ batch = None
    /\ \E doc \in (IF stored = None THEN RawDocuments ELSE {stored[1]}) :
          /\ raw' = Some(doc)
          /\ IF parseSolutionFileThrows(doc)
             THEN /\ queryError' = TRUE
                  /\ UNCHANGED schedule
             ELSE /\ queryError' = FALSE
                  /\ schedule' = Some(parseSolutionFile(doc, timezoneOffset))
    /\ UNCHANGED serverVars
    /\ UNCHANGED <<timezoneOffset, rows, mounted, schedules, searchTerm, compareView,
                   pageVars, batch>>

\* SchedulePage renders the single-mode ScheduleTable of the decoded
\* schedule (searchTerm is its initial '', every employee is shown)
RenderScheduleTable ==
    /\ schedule # None
    /\ mounted = "none"
    /\ mounted' = "single"
    /\ rows' = Some([i \in 1..Len(schedule[1].employees) |->
                        RenderRow(schedule[1].employees[i], schedule[1])])
    /\ UNCHANGED serverVars
    /\ UNCHANGED <<timezoneOffset, raw, schedule, queryError, schedules, searchTerm,
                   compareView, pageVars, batch>>

\* The compare-mode ScheduleTable is mounted with a list of schedules
ShowCompare ==
    /\ Untouched
    /\ \E scheds \in CompareInputs(timezoneOffset) :
          /\ schedules' = scheds
          /\ compareView' = Some(RenderCompare(scheds, searchTerm))
    /\ mounted' = "compare"
    /\ UNCHANGED serverVars
    /\ UNCHANGED <<timezoneOffset, raw, schedule, queryError, rows, searchTerm,
                   pageVars, batch>>

\* The search box of the compare-mode table changes; the memo is recomputed
SetSearchTerm ==
    /\ mounted = "compare"
    /\ compareView # None
    /\ compareView[1].status # "TypeError"
    /\ \E term \in SearchTerms \ {searchTerm} :
          /\ searchTerm' = term
          /\ compareView' = Some(RenderCompare(schedules, term))
    /\ UNCHANGED serverVars
    /\ UNCHANGED <<timezoneOffset, raw, schedule, queryError, rows, mounted, schedules,
                   pageVars, batch>>

\* useMultipleSchedules: the query function maps over the ids and issues
\* every fetch before it awaits any of them
useMultipleSchedules ==
    /\ Untouched
    /\ \E ids \in RequestedIds :
          batch' = Some([ids |-> SortScheduleIds(ids),
                         fetches |-> [i \in 1..Len(ids) |-> PendingFetch],
                         result |-> None])
    /\ UNCHANGED serverVars
    /\ UNCHANGED <<timezoneOffset, raw, schedule, queryError, rows, mounted, schedules,
                   searchTerm, compareView, pageVars>>

\* One of the pending fetches gets its response, in any order; the
\* continuation of its promise and of Promise.all run in the same turn
SettleFetch ==
    /\ batch # None
    /\ \E i \in 1..Len(batch[1].fetches), read \in RepositoryReads :
          /\ batch[1].fetches[i].status = "pending"
          /\ LET settled == FetchOne(batch[1].ids[i], GetScheduleResponse(read),
                                     timezoneOffset)
                 fetches == [batch[1].fetches EXCEPT ![i] = settled]
             IN  batch' = Some([ids |-> batch[1].ids, fetches |-> fetches,
                                result |-> BatchResult(fetches)])
    /\ UNCHANGED serverVars
    /\ UNCHANGED <<timezoneOffset, raw, schedule, queryError, rows, mounted, schedules,
                   searchTerm, compareView, pageVars>>

Next ==
    \/ handleFileUpload
    \/ handleSeedConfirm
    \/ POST
    \/ FetchSchedule
    \/ RenderScheduleTable
    \/ ShowCompare
    \/ SetSearchTerm
    \/ useMultipleSchedules
    \/ SettleFetch

Spec == Init /\ [][Next]_vars

----------------------------------------------------------------------------
(* case-helper: the case a request works on *)

\* The leading decimal digits of a header value
RECURSIVE LeadingDigits(_)
LeadingDigits(text) ==
    IF text = <<>> \/ ~Includes(DigitChars, Head(text)) THEN <<>>
    ELSE <<Head(text)>> \o LeadingDigits(Tail(text))

RECURSIVE DigitsValue(_)
DigitsValue(digits) ==
    IF digits = <<>> THEN 0
    ELSE 10 * DigitsValue(SubSeq(digits, 1, Len(digits) - 1))
         + DigitValue(digits[Len(digits)])

\* parseInt of a header value without sign or leading blanks: the number
\* its leading digits spell, NaN (None) when it starts with no digit
parseInt(text) ==
    IF LeadingDigits(text) = <<>> THEN None ELSE Some(DigitsValue(LeadingDigits(text)))

\* getCaseIdFromHeaders; the header is absent or a text
getCaseIdFromHeaders(header) ==
    IF header # None /\ header[1] # <<>> /\ parseInt(header[1]) # None
    THEN parseInt(header[1])[1]
    ELSE 1

\* The case of a request that carries no x-case-id header
DefaultCase == getCaseIdFromHeaders(None)

----------------------------------------------------------------------------
(* The schedule API of one case: POST /api/schedule, POST                  *)
(* /api/schedule/[scheduleId]/select, DELETE /api/schedule/[scheduleId]    *)
(* and the comment update, each running its repository call to the end,    *)
(* two saves that overlap, and the comparison fetching what was saved.     *)

\* Ids, seeds, solutions and comments the calls range over
RepositoryIds == {"s1", "s2"}
Seeds == {11, 22}
Solutions == {PlainDocument, [PlainDocument EXCEPT !.stats = Some(ReportedStats)]}
Comments == {"ok"}

\* The files of the case the calls work on
TheCase == repository[DefaultCase]

\* The metadata entries with a schedule id
EntriesOf(metadata, scheduleId) ==
    {i \in 1..Len(metadata.schedules) : metadata.schedules[i].scheduleId = scheduleId}

\* A completed call on the case, with what held of its id before the call
CallRecord(op, scheduleId, autoSelect) ==
    [op |-> op, scheduleId |-> scheduleId, autoSelect |-> autoSelect,
     listed |-> EntriesOf(TheCase.metadata, scheduleId) # {},
     stored |-> scheduleId \in DOMAIN TheCase.files,
     wasSelected |-> TheCase.metadata.selectedScheduleId = Some(scheduleId)]

\* No call is running and no comparison has been opened
Quiescent == inflight = <<>> /\ batch = None

\* What one uninterrupted saveSchedule call does to the case
SaveScheduleStep(scheduleId, seed, solution, autoSelect) ==
    /\ repository' = [repository EXCEPT ![DefaultCase] =
                          saveSchedule(@, scheduleId, seed, solution, autoSelect)]
    /\ lastCall' = CallRecord("saveSchedule", scheduleId, autoSelect)

CallSaveSchedule ==
    /\ Quiescent
    /\ \E scheduleId \in RepositoryIds, seed \in Seeds, solution \in Solutions,
          autoSelect \in BOOLEAN :
          SaveScheduleStep(scheduleId, seed, solution, autoSelect)
    /\ UNCHANGED <<timezoneOffset, clientVars, batch, inflight, jobs, globalWishes>>

CallSelectSchedule ==
    /\ Quiescent
    /\ \E scheduleId \in RepositoryIds :
          /\ repository' = [repository EXCEPT ![DefaultCase] = selectSchedule(@, scheduleId)]
          /\ lastCall' = CallRecord("selectSchedule", scheduleId, FALSE)
    /\ UNCHANGED <<timezoneOffset, clientVars, batch, inflight, jobs, globalWishes>>

\* What one uninterrupted deleteSchedule call does to the case
DeleteScheduleStep(scheduleId) ==
    /\ repository' = [repository EXCEPT ![DefaultCase] = deleteSchedule(@, scheduleId)]
    /\ lastCall' = CallRecord("deleteSchedule", scheduleId, FALSE)

CallDeleteSchedule ==
    /\ Quiescent
    /\ \E scheduleId \in RepositoryIds : DeleteScheduleStep(scheduleId)
    /\ UNCHANGED <<timezoneOffset, clientVars, batch, inflight, jobs, globalWishes>>

CallUpdateScheduleComment ==
    /\ Quiescent
    /\ \E scheduleId \in RepositoryIds, comment \in Comments :
          /\ repository' = [repository EXCEPT ![DefaultCase] =
                                updateScheduleComment(@, scheduleId, comment)]
          /\ lastCall' = CallRecord("updateScheduleComment", scheduleId, FALSE)
    /\ UNCHANGED <<timezoneOffset, clientVars, batch, inflight, jobs, globalWishes>>

\* Two POST /api/schedule requests for different ids arrive together in a
\* case without schedules; each call then advances from one await to the
\* next, in any interleaving
StartConcurrentSaves ==
    /\ Quiescent
    /\ TheCase = EmptyCase
    /\ \E solution \in Solutions, first \in BOOLEAN, second \in BOOLEAN :
          inflight' =
              <<[scheduleId |-> "s1", seed |-> 11, solution |-> solution,
                 autoSelect |-> first, pc |-> "writeSolution", metadataDb |-> None],
                [scheduleId |-> "s2", seed |-> 22, solution |-> solution,
                 autoSelect |-> second, pc |-> "writeSolution", metadataDb |-> None]>>
    /\ UNCHANGED <<timezoneOffset, clientVars, batch, repository, lastCall, jobs,
                   globalWishes>>

\* Lines 86-88: the call writes its solution file
SaveWriteSolution ==
    /\ \E i \in 1..Len(inflight) :
          /\ inflight[i].pc = "writeSolution"
          /\ repository' = [repository EXCEPT ![DefaultCase] =
                 WriteSolution(@, inflight[i].scheduleId, inflight[i].solution)]
          /\ inflight' = [inflight EXCEPT ![i].pc = "readMetadata"]
    /\ UNCHANGED <<timezoneOffset, clientVars, batch, lastCall, jobs, globalWishes>>

\* Line 91: getSchedulesMetadataDb reads schedules.json into a Low instance
\* of its own
SaveReadMetadata ==
    /\ \E i \in 1..Len(inflight) :
          /\ inflight[i].pc = "readMetadata"
          /\ inflight' = [inflight EXCEPT ![i].pc = "writeMetadata",
                                          ![i].metadataDb = Some(TheCase.metadata)]
    /\ UNCHANGED <<timezoneOffset, clientVars, batch, repository, lastCall, jobs,
                   globalWishes>>

\* Lines 94-126: the call changes the metadata it read and writes the file
SaveWriteMetadata ==
    /\ \E i \in 1..Len(inflight) :
          /\ inflight[i].pc = "writeMetadata"
          /\ repository' = [repository EXCEPT ![DefaultCase].metadata =
                 UpdateMetadata(inflight[i].metadataDb[1], inflight[i].scheduleId,
                                inflight[i].seed, inflight[i].solution,
                                inflight[i].autoSelect)]
          /\ inflight' = [inflight EXCEPT ![i].pc = "done"]
    /\ UNCHANGED <<timezoneOffset, clientVars, batch, lastCall, jobs, globalWishes>>

\* The ids the comparison is opened with: distinct, in any order
ComparedIds ==
    {ids \in BoundedSeqs(RepositoryIds, Cardinality(RepositoryIds)) :
        /\ ids # <<>>
        /\ \A a, b \in 1..Len(ids) : a # b => ids[a] # ids[b]}

\* useMultipleSchedules on what a save has left in the case: every fetch is
\* answered by GET /api/schedule/[scheduleId] from the repository
CompareSavedSchedules ==
    /\ Quiescent
    /\ lastCall.op = "saveSchedule"
    /\ \E requested \in ComparedIds :
          LET ids == SortScheduleIds(requested)
              fetches == [i \in 1..Len(ids) |->
                  FetchOne(ids[i],
                           GetScheduleResponse([failed |-> FALSE,
                                                solution |-> getSchedule(TheCase, ids[i])]),
                           timezoneOffset)]
          IN  batch' = Some([ids |-> ids, fetches |-> fetches,
                             result |-> BatchResult(fetches)])
    /\ UNCHANGED <<timezoneOffset, clientVars, serverVars>>

NextRepository ==
    \/ CallSaveSchedule
    \/ CallSelectSchedule
    \/ CallDeleteSchedule
    \/ CallUpdateScheduleComment
    \/ StartConcurrentSaves
    \/ SaveWriteSolution
    \/ SaveReadMetadata
    \/ SaveWriteMetadata
    \/ CompareSavedSchedules

SpecRepository == Init /\ [][NextRepository]_vars

----------------------------------------------------------------------------
(* job-repository: the job history of one case.  A job is what the solver  *)
(* routes store; created is the logical time of the create call that put   *)
(* it into the history (the repository reads no field of a job but id).    *)

\* MAX_JOBS of the job repository
MAX_JOBS == 10

\* The most creates the model follows in one history
MaxCreated == 11

\* db.data.jobs.findIndex((j) => j.id === jobId): 0 for -1
findJobIndex(jobList, jobId) ==
    IF \E i \in 1..Len(jobList) : jobList[i].id = jobId
    THEN CHOOSE i \in 1..Len(jobList) :
             /\ jobList[i].id = jobId
             /\ \A k \in 1..(i - 1) : jobList[k].id # jobId
    ELSE 0

\* Plausible slip: the job is pushed to the end and the tail is kept
createAtEnd(jobList, data) ==
    LET pushed == Append(jobList, data)
    IN  IF Len(pushed) > MAX_JOBS
        THEN SubSeq(pushed, Len(pushed) - MAX_JOBS + 1, Len(pushed))
        ELSE pushed

\* jobRepository.create: unshift, then slice(0, MAX_JOBS)
create(jobList, data) ==
    LET unshifted == <<data>> \o jobList
    IN  IF Len(unshifted) > MAX_JOBS THEN SubSeq(unshifted, 1, MAX_JOBS) ELSE unshifted

\* jobRepository.update throws before it writes when the job is not found
updateThrows(jobList, jobId) == findJobIndex(jobList, jobId) = 0

\* jobRepository.update of a job that is found
update(jobList, jobId, data) ==
    [jobList EXCEPT ![findJobIndex(jobList, jobId)] = data]

\* jobRepository.delete: <<the jobs afterwards, the boolean it returns>>
delete(jobList, jobId) ==
    LET filtered == SelectSeq(jobList, LAMBDA j : j.id # jobId)
    IN  <<filtered, Len(filtered) < Len(jobList)>>

\* jobRepository.deleteAll
deleteAll(jobList) == <<>>

\* jobRepository.cleanup
cleanup(jobList) ==
    IF Len(jobList) > MAX_JOBS THEN SubSeq(jobList, 1, MAX_JOBS) ELSE jobList

\* The history of the case the calls work on
History == jobs[DefaultCase]

\* The logical time of the next create call: later than every job present
NextCreated ==
    IF History = <<>> THEN 1
    ELSE 1 + (CHOOSE n \in {History[i].created : i \in 1..Len(History)} :
                 \A i \in 1..Len(History) : History[i].created <= n)

\* The job a solver route stores: a fresh id, the status of the run
NewJob(created, status) ==
    [id |-> "job" \o ToString(created), created |-> created, status |-> status]

\* Ids handed to update and delete: the jobs present and one that is not
JobIdsNamed == {History[i].id : i \in 1..Len(History)} \cup {"job0"}

CreateStep(data) ==
    jobs' = [jobs EXCEPT ![DefaultCase] = create(@, data)]

CallCreate ==
    /\ NextCreated <= MaxCreated
    /\ CreateStep(NewJob(NextCreated, "completed"))
    /\ UNCHANGED <<timezoneOffset, clientVars, batch, repository, inflight, lastCall,
                   globalWishes>>

UpdateStep(jobId, data) ==
    jobs' = [jobs EXCEPT ![DefaultCase] =
                IF updateThrows(@, jobId) THEN @ ELSE update(@, jobId, data)]

\* The job handed to update for jobId: the same job with the status "failed"
UpdateData(jobId) ==
    IF updateThrows(History, jobId) THEN NewJob(0, "failed")
    ELSE [History[findJobIndex(History, jobId)] EXCEPT !.status = "failed"]

\* update of a job, present or not; the model follows one failed job at a
\* time
CallUpdate ==
    /\ \A i \in 1..Len(History) : History[i].status # "failed"
    /\ \E jobId \in JobIdsNamed :
          UpdateStep(jobId, UpdateData(jobId))
    /\ UNCHANGED <<timezoneOffset, clientVars, batch, repository, inflight, lastCall,
                   globalWishes>>

CallDelete ==
    /\ \E jobId \in JobIdsNamed :
          jobs' = [jobs EXCEPT ![DefaultCase] = delete(@, jobId)[1]]
    /\ UNCHANGED <<timezoneOffset, clientVars, batch, repository, inflight, lastCall,
                   globalWishes>>

CallDeleteAll ==
    /\ jobs' = [jobs EXCEPT ![DefaultCase] = deleteAll(@)]
    /\ UNCHANGED <<timezoneOffset, clientVars, batch, repository, inflight, lastCall,
                   globalWishes>>

CallCleanup ==
    /\ jobs' = [jobs EXCEPT ![DefaultCase] = cleanup(@)]
    /\ UNCHANGED <<timezoneOffset, clientVars, batch, repository, inflight, lastCall,
                   globalWishes>>

NextJobs ==
    \/ CallCreate
    \/ CallUpdate
    \/ CallDelete
    \/ CallDeleteAll
    \/ CallCleanup

SpecJobs == Init /\ [][NextJobs]_vars

----------------------------------------------------------------------------
(* Requests of several cases: every request carries an x-case-id header    *)
(* (or none) and is served by its route.  lastCall records the request:    *)
(* the route, the case id of the header and what the response returned.    *)

\* The x-case-id headers of the requests: none, case 1, case 2, no number
Headers == {None, Some(<<"1">>), Some(<<"2">>), Some(<<"x">>)}

\* The most employees and keys the model follows in one global file
MaxKey == 2

\* The most jobs the model follows per case
MaxCaseJobs == 1

\* FILE_PATH of /api/global-wishes-and-blocked: the file of the case "1"
FILE_PATH == 1

\* employees.reduce((m, e) => Math.max(m, e.key ?? 0), 0)
maxKey(employees) ==
    IF employees = <<>> THEN 0
    ELSE CHOOSE m \in {employees[i].key : i \in 1..Len(employees)} :
             \A i \in 1..Len(employees) : employees[i].key <= m

\* What a request leaves in lastCall
RequestRecord(op, header, returned) ==
    [op |-> op, caseId |-> getCaseIdFromHeaders(header), returned |-> returned]

\* GET /api/global-wishes-and-blocked
GlobalWishesGET ==
    /\ \E header \in Headers :
          lastCall' = RequestRecord("GET global-wishes-and-blocked", header,
                                    globalWishes[FILE_PATH])
    /\ UNCHANGED <<timezoneOffset, clientVars, batch, repository, inflight, jobs,
                   globalWishes>>

\* POST /api/global-wishes-and-blocked
GlobalWishesPOST ==
    /\ maxKey(globalWishes[FILE_PATH]) < MaxKey
    /\ \E header \in Headers :
          LET employees == globalWishes[FILE_PATH]
              newEmployee == [key |-> maxKey(employees) + 1, wish |-> "early"]
          IN  /\ globalWishes' = [globalWishes EXCEPT
                                     ![FILE_PATH] = Append(employees, newEmployee)]
              /\ lastCall' = RequestRecord("POST global-wishes-and-blocked", header,
                                           <<newEmployee>>)
    /\ UNCHANGED <<timezoneOffset, clientVars, batch, repository, inflight, jobs>>

\* PUT /api/global-wishes-and-blocked: 404 and no write when the key is not
\* found
GlobalWishesPUT ==
    /\ \E header \in Headers, id \in 1..MaxKey :
          LET employees == globalWishes[FILE_PATH]
              found == {i \in 1..Len(employees) : employees[i].key = id}
              idx == CHOOSE i \in found : \A k \in found : i <= k
              updated == [employees EXCEPT ![idx] = [key |-> id, wish |-> "late"]]
          IN  IF found = {}
              THEN /\ lastCall' = RequestRecord("PUT global-wishes-and-blocked",
                                                header, <<>>)
                   /\ UNCHANGED globalWishes
              ELSE /\ globalWishes' = [globalWishes EXCEPT ![FILE_PATH] = updated]
                   /\ lastCall' = RequestRecord("PUT global-wishes-and-blocked",
                                                header, <<updated[idx]>>)
    /\ UNCHANGED <<timezoneOffset, clientVars, batch, repository, inflight, jobs>>

\* DELETE /api/global-wishes-and-blocked
GlobalWishesDELETE ==
    /\ \E header \in Headers, id \in 1..MaxKey :
          /\ globalWishes' = [globalWishes EXCEPT ![FILE_PATH] =
                                 SelectSeq(@, LAMBDA e : e.key # id)]
          /\ lastCall' = RequestRecord("DELETE global-wishes-and-blocked", header, <<>>)
    /\ UNCHANGED <<timezoneOffset, clientVars, batch, repository, inflight, jobs>>

\* GET /api/schedule: the schedules metadata of the case of the header
ScheduleGET ==
    /\ \E header \in Headers :
          lastCall' = RequestRecord("GET schedule", header,
                                    <<repository[getCaseIdFromHeaders(header)].metadata>>)
    /\ UNCHANGED <<timezoneOffset, clientVars, batch, repository, inflight, jobs,
                   globalWishes>>

\* POST /api/schedule/[scheduleId]/select
ScheduleSelectPOST ==
    /\ \E header \in Headers, scheduleId \in RepositoryIds :
          /\ repository' = [repository EXCEPT ![getCaseIdFromHeaders(header)] =
                               selectSchedule(@, scheduleId)]
          /\ lastCall' = RequestRecord("POST schedule select", header, <<>>)
    /\ UNCHANGED <<timezoneOffset, clientVars, batch, inflight, jobs, globalWishes>>

\* GET /api/solver/jobs: the job history of the case of the header
JobsGET ==
    /\ \E header \in Headers :
          lastCall' = RequestRecord("GET solver jobs", header,
                                    jobs[getCaseIdFromHeaders(header)])
    /\ UNCHANGED <<timezoneOffset, clientVars, batch, repository, inflight, jobs,
                   globalWishes>>

\* POST /api/solver/solve: the run is stored in the history of the case
SolvePOST ==
    /\ \E header \in Headers :
          LET caseId == getCaseIdFromHeaders(header)
              job == NewJob(Len(jobs[caseId]) + 1, "completed")
          IN  /\ Len(jobs[caseId]) < MaxCaseJobs
              /\ jobs' = [jobs EXCEPT ![caseId] = create(@, job)]
              /\ lastCall' = RequestRecord("POST solver solve", header, <<job>>)
    /\ UNCHANGED <<timezoneOffset, clientVars, batch, repository, inflight,
                   globalWishes>>

NextCases ==
    \/ GlobalWishesGET
    \/ GlobalWishesPOST
    \/ GlobalWishesPUT
    \/ GlobalWishesDELETE
    \/ ScheduleGET
    \/ ScheduleSelectPOST
    \/ JobsGET
    \/ SolvePOST

SpecCases == Init /\ [][NextCases]_vars

----------------------------------------------------------------------------
(* Vocabulary of the properties, stated on the raw document *)

\* The day-of-month of a calendar date "YYYY-MM-DD"
DayOfMonth(dateStr) == ParseInt2(SubSeq(dateStr, 9, 10))

\* The date strings of the fetched document, in order
DocDays == raw[1].days[1]

\* Catalog positions of the shifts whose variable for (empId, dateStr) is 1
AssignedCatalogEntries(empId, dateStr) ==
    {k \in 1..Len(schedule[1].shifts) :
        IsOne(schedule[1].variables, VarKey(empId, dateStr, schedule[1].shifts[k].id))}

\* The shift_wishes entries of an employee for a day-of-month
WishesOn(employee, dayOfMonth) ==
    {k \in 1..Len(ShiftWishesOf(employee)) :
        ShiftWishesOf(employee)[k][1] = dayOfMonth}

\* Some shift named by one of these wishes is assigned to the employee
NamedShiftAssigned(employee, dateStr, wishIdx) ==
    \E k \in wishIdx, c \in AssignedCatalogEntries(employee.id, dateStr) :
        schedule[1].shifts[c].abbreviation = ShiftWishesOf(employee)[k][2]

\* (day, catalog entry) pairs assigned to an employee over the whole solution
AssignedPairs(empId) ==
    {p \in (1..Len(DocDays)) \X (1..Len(schedule[1].shifts)) :
        p[2] \in AssignedCatalogEntries(empId, DocDays[p[1]])}

RECURSIVE TotalDuration(_)
TotalDuration(pairs) ==
    IF pairs = {} THEN 0
    ELSE LET p == CHOOSE q \in pairs : TRUE
         IN  schedule[1].shifts[p[2]].duration + TotalDuration(pairs \ {p})

----------------------------------------------------------------------------
(* C1 *)

\* C1 (as claimed): for every employee e and day d of the decoded solution,
\* cell (e,d) is in allDayOffWishCells iff d's day-of-month is in e's
\* day_off_wishes, and it is in fulfilledDayOffCells iff it is in
\* allDayOffWishCells and no catalog shift is assigned to e on d.
C1_DayOffCellsFollowCalendarDay ==
    schedule # None =>
        \A i \in 1..Len(schedule[1].employees), j \in 1..Len(DocDays) :
            LET e == schedule[1].employees[i]
                cell == CellKey(e.id, DocDays[j])
            IN  /\ cell \in schedule[1].allDayOffWishCells
                    <=> Includes(DayOffWishesOf(e), DayOfMonth(DocDays[j]))
                /\ cell \in schedule[1].fulfilledDayOffCells
                    <=> /\ cell \in schedule[1].allDayOffWishCells
                        /\ AssignedCatalogEntries(e.id, DocDays[j]) = {}

----------------------------------------------------------------------------
(* C2 *)

\* C2: no cell is in fulfilledDayOffCells while getShiftsForCell returns a
\* shift for it: the decoder's scan and the assignment query agree.
C2_FulfilledDayOffHasNoShift ==
    schedule # None =>
        \A i \in 1..Len(schedule[1].employees), j \in 1..Len(schedule[1].days) :
            LET e == schedule[1].employees[i]
                day == schedule[1].days[j]
            IN  CellKey(e.id, toISODate(day)) \in schedule[1].fulfilledDayOffCells
                    => getShiftsForCell(e.id, day, schedule[1].shifts,
                                        schedule[1].variables) = <<>>

\* A decoded solution with a fulfilled day-off cell and with a day-off wish
\* cell that carries only the second catalog shift
C2_Witness ==
    /\ schedule # None
    /\ schedule[1].fulfilledDayOffCells # {}
    /\ \E i \in 1..Len(schedule[1].employees), j \in 1..Len(schedule[1].days) :
          LET e == schedule[1].employees[i]
              day == schedule[1].days[j]
              assigned == getShiftsForCell(e.id, day, schedule[1].shifts,
                                           schedule[1].variables)
          IN  /\ CellKey(e.id, toISODate(day)) \in schedule[1].allDayOffWishCells
              /\ CellKey(e.id, toISODate(day)) \notin schedule[1].fulfilledDayOffCells
              /\ Len(assigned) = 1
              /\ Len(schedule[1].shifts) = 2
              /\ assigned[1] = schedule[1].shifts[2]

----------------------------------------------------------------------------
(* C3 *)

\* C3 (as claimed): on a day d for which e has a shift wish, cell (e,d) is
\* in fulfilledShiftWishCells iff none of the wished shifts is assigned to e
\* on d and d's day-of-month is not a day-off wish; a cell without a shift
\* wish for its day is never in fulfilledShiftWishCells.
C3_ShiftWishCellsFollowCalendarDay ==
    schedule # None =>
        \A i \in 1..Len(schedule[1].employees), j \in 1..Len(DocDays) :
            LET e == schedule[1].employees[i]
                cell == CellKey(e.id, DocDays[j])
                wishIdx == WishesOn(e, DayOfMonth(DocDays[j]))
            IN  cell \in schedule[1].fulfilledShiftWishCells
                    <=> /\ wishIdx # {}
                        /\ ~NamedShiftAssigned(e, DocDays[j], wishIdx)
                        /\ ~Includes(DayOffWishesOf(e), DayOfMonth(DocDays[j]))

----------------------------------------------------------------------------
(* C4 *)

\* C4: getShiftsForCell returns exactly the catalog shifts whose variable
\* for (e, d) is 1, one per catalog entry, in catalog order, and no other
\* key of the variables map changes the result.
C4_AssignedShiftsInCatalogOrder ==
    rows # None =>
        \A i \in 1..Len(schedule[1].employees), j \in 1..Len(DocDays) :
            LET e == schedule[1].employees[i]
                result == rows[1][i].cells[j].shiftsForCell
                cellKeys == {VarKey(e.id, DocDays[j], schedule[1].shifts[k].id) :
                                k \in 1..Len(schedule[1].shifts)}
            IN  /\ result = SelectSeq(schedule[1].shifts,
                       LAMBDA s : IsOne(schedule[1].variables,
                                        VarKey(e.id, DocDays[j], s.id)))
                /\ \A other \in DOMAIN schedule[1].variables \ cellKeys :
                       getShiftsForCell(e.id, schedule[1].days[j], schedule[1].shifts,
                           [k \in DOMAIN schedule[1].variables \ {other} |->
                               schedule[1].variables[k]]) = result

\* A rendered table with a cell holding two shifts in the order of a catalog
\* that lists S before F, a cell holding none, and a key of another cell
C4_Witness ==
    /\ rows # None
    /\ \E i \in 1..Len(rows[1]), j \in 1..Len(DocDays) :
          /\ Len(rows[1][i].cells[j].shiftsForCell) = 2
          /\ rows[1][i].cells[j].shiftsForCell[1].abbreviation = "S"
          /\ rows[1][i].cells[j].shiftsForCell[2].abbreviation = "F"
    /\ \E i \in 1..Len(rows[1]), j \in 1..Len(DocDays) :
          rows[1][i].cells[j].shiftsForCell = <<>>

----------------------------------------------------------------------------
(* C5 *)

\* C5: hasOvertime is true iff |actualMinutes - target_working_time| > 460.2
\* (7.67 h), strictly, for a shortfall as for an excess.
C5_OvertimeBeyondTolerance ==
    rows # None =>
        \A i \in 1..Len(rows[1]) :
            LET e == schedule[1].employees[i]
                actualMinutes == TotalDuration(AssignedPairs(e.id))
            IN  rows[1][i].stats.hasOvertime
                    <=> 10 * Abs(actualMinutes - e.target_working_time) > 4602

\* A rendered table where one employee is 461 minutes short of the target
\* (flagged) and another is 460 minutes over it (not flagged)
C5_Witness ==
    /\ rows # None
    /\ \E i \in 1..Len(rows[1]) :
          /\ schedule[1].employees[i].target_working_time
                 - TotalDuration(AssignedPairs(schedule[1].employees[i].id)) = 461
          /\ rows[1][i].stats.hasOvertime
    /\ \E i \in 1..Len(rows[1]) :
          /\ TotalDuration(AssignedPairs(schedule[1].employees[i].id))
                 - schedule[1].employees[i].target_working_time = 460
          /\ ~rows[1][i].stats.hasOvertime

----------------------------------------------------------------------------
(* C6 *)

\* C6: totalShifts is the number of assigned (day, shift) pairs of the
\* employee, actualHours is the sum of their durations / 60 and targetHours
\* is target_working_time / 60.
C6_StatsCountEveryAssignment ==
    rows # None =>
        \A i \in 1..Len(rows[1]) :
            LET e == schedule[1].employees[i]
                st == rows[1][i].stats
            IN  /\ st.totalShifts = Cardinality(AssignedPairs(e.id))
                /\ 60 * st.actualHours.num
                       = TotalDuration(AssignedPairs(e.id)) * st.actualHours.den
                /\ 60 * st.targetHours.num = e.target_working_time * st.targetHours.den

\* A rendered table where an employee has two shifts on one day
C6_Witness ==
    /\ rows # None
    /\ \E i \in 1..Len(rows[1]), j \in 1..Len(DocDays) :
          /\ Len(rows[1][i].cells[j].shiftsForCell) = 2
          /\ rows[1][i].stats.totalShifts = 2
          /\ rows[1][i].stats.actualHours = Frac(940, 60)

----------------------------------------------------------------------------
(* Vocabulary of the comparison properties *)

\* The employee ids that occur in a schedule
IdsOf(sched) == {sched.employees[m].id : m \in 1..Len(sched.employees)}

\* Positions, in input order, of the schedules that contain an id
Containing(employeeId) ==
    {k \in 1..Len(schedules) : employeeId \in IdsOf(schedules[k])}

\* The n-th smallest element of a set of numbers
NthOf(S, n) == CHOOSE x \in S : Cardinality({y \in S : y < x}) = n - 1

\* The record of an id in schedule k: its first occurrence in the list
RecordIn(k, employeeId) ==
    LET emps == schedules[k].employees
    IN  emps[CHOOSE m \in 1..Len(emps) :
                /\ emps[m].id = employeeId
                /\ \A l \in 1..(m - 1) : emps[l].id # employeeId]

\* Where an id is first met: <<schedule position, position in its list>>
FirstMet(employeeId) ==
    LET k == NthOf(Containing(employeeId), 1)
        emps == schedules[k].employees
    IN  <<k, CHOOSE m \in 1..Len(emps) :
                /\ emps[m].id = employeeId
                /\ \A l \in 1..(m - 1) : emps[l].id # employeeId>>

Rendered == compareView # None /\ compareView[1].status # "TypeError"

Groups == compareView[1].groups

\* The groups rendered for an id (positions in Groups)
GroupsFor(employeeId) ==
    {g \in 1..Len(Groups) :
        \E n \in 1..Len(Groups[g]) :
            /\ Groups[g][n].employee # None
            /\ Groups[g][n].employee[1].id = employeeId}

AllIds == UNION {IdsOf(schedules[k]) : k \in 1..Len(schedules)}

----------------------------------------------------------------------------
(* C7 *)

\* C7: the group of an employee id has exactly one entry per input solution
\* that contains the id, in input order, each with that solution's
\* scheduleId, seed, employee record and schedule data; no padding.
C7_GroupHasOneEntryPerContainingSolution ==
    Rendered =>
        /\ \A g \in 1..Len(Groups) :
              /\ Len(Groups[g]) >= 1
              /\ \A n \in 1..Len(Groups[g]) : Groups[g][n].employee # None
              /\ LET id == Groups[g][1].employee[1].id
                 IN  /\ Len(Groups[g]) = Cardinality(Containing(id))
                     /\ \A n \in 1..Len(Groups[g]) :
                           LET k == NthOf(Containing(id), n)
                           IN  /\ Groups[g][n].scheduleId = schedules[k].scheduleId
                               /\ Groups[g][n].seed = schedules[k].seed
                               /\ Groups[g][n].scheduleData = schedules[k]
                               /\ Groups[g][n].employee[1] = RecordIn(k, id)
        /\ \A id \in AllIds :
              /\ Cardinality(GroupsFor(id)) <= 1
              /\ searchTerm = <<>> => Cardinality(GroupsFor(id)) = 1

\* Scenario D: two solutions contain id 7, only one contains id 9
C7_Witness ==
    /\ Rendered
    /\ Len(schedules) = 2
    /\ Containing(7) = {1, 2}
    /\ Containing(9) = {2}
    /\ \E g \in GroupsFor(7) : Len(Groups[g]) = 2
    /\ \E g \in GroupsFor(9) : Len(Groups[g]) = 1

----------------------------------------------------------------------------
(* C8 *)

\* C8: under a non-empty search term the group of an id is kept iff the
\* term matches the id's record in the first solution that contains it.
C8_FilterUsesFirstOccurrence ==
    (Rendered /\ searchTerm # <<>>) =>
        \A id \in AllIds :
            GroupsFor(id) # {}
                <=> MatchesSearch(RecordIn(NthOf(Containing(id), 1), id), searchTerm)

\* The term matches the first record of id 7 but not its later record, and
\* the group is kept with both entries
C8_Witness ==
    /\ Rendered
    /\ searchTerm = <<"a","n">>
    /\ Containing(7) = {1, 2}
    /\ MatchesSearch(RecordIn(1, 7), searchTerm)
    /\ ~MatchesSearch(RecordIn(2, 7), searchTerm)
    /\ \E g \in GroupsFor(7) : Len(Groups[g]) = 2

----------------------------------------------------------------------------
(* C9 *)

\* C9: groups are ordered by where their id is first met when the
\* solutions are scanned in input order and their employees in list order;
\* the entries of a group keep the input order of the solutions.
C9_GroupsInFirstEncounterOrder ==
    Rendered =>
        /\ \A g, h \in 1..Len(Groups) :
              g < h =>
                  /\ Groups[g] # <<>> /\ Groups[g][1].employee # None
                  /\ Groups[h] # <<>> /\ Groups[h][1].employee # None
                  /\ LET a == FirstMet(Groups[g][1].employee[1].id)
                         b == FirstMet(Groups[h][1].employee[1].id)
                     IN  a[1] < b[1] \/ (a[1] = b[1] /\ a[2] < b[2])
        /\ \A g \in 1..Len(Groups) :
              \A n, o \in 1..Len(Groups[g]) :
                  n < o =>
                      \E k, l \in 1..Len(schedules) :
                          /\ k < l
                          /\ schedules[k].scheduleId = Groups[g][n].scheduleId
                          /\ schedules[l].scheduleId = Groups[g][o].scheduleId

\* Id 9 is met before id 7, so its group comes first although 9 > 7, and a
\* group has two entries
C9_Witness ==
    /\ Rendered
    /\ Len(Groups) = 2
    /\ Groups[1][1].employee[1].id = 9
    /\ Groups[2][1].employee[1].id = 7
    /\ Len(Groups[2]) = 2

----------------------------------------------------------------------------
(* C10 *)

\* C10 (as claimed): an empty list of schedules in compare mode yields an
\* empty grouping and the 'no schedules to compare' state, without an error.
C10_EmptyListIsNotAnError ==
    (mounted = "compare" /\ schedules = <<>>) =>
        /\ compareView # None
        /\ compareView[1].status = "noSchedules"
        /\ compareView[1].groups = <<>>

----------------------------------------------------------------------------
(* C11 *)

\* One of the four top-level fields of the fetched document is absent
TopLevelFieldAbsent ==
    \/ raw[1].variables = None \/ raw[1].employees = None
    \/ raw[1].shifts = None \/ raw[1].days = None

\* C11 (as claimed): decoding fails only if one of variables, employees,
\* shifts, days is entirely absent; every document that carries all four
\* decodes without error, whatever optional per-employee fields or stats
\* it lacks.
C11_DecodingFailsOnlyWithoutTopLevelField ==
    (raw # None /\ queryError) => TopLevelFieldAbsent

----------------------------------------------------------------------------
(* C12 *)

\* C12 (as claimed): a document that carries the four top-level fields is
\* decoded without an error whatever soft data it lacks; in the decoded
\* solution every employee's wishes.day_off_wishes, wishes.shift_wishes,
\* vacation_days, forbidden_days, vacation_shifts and forbidden_shifts are
\* lists (empty where the document had none), and when the document has no
\* stats the decoded stats have all 8 counters equal to 0.
C12_SoftMissingDataIsDefaulted ==
    (raw # None /\ ~TopLevelFieldAbsent) =>
        /\ ~queryError
        /\ schedule # None
        /\ \A i \in 1..Len(schedule[1].employees) :
              LET e == schedule[1].employees[i]
                  r == raw[1].employees[1][i]
              IN  /\ e.wishes # None
                  /\ e.wishes[1].day_off_wishes # None
                  /\ e.wishes[1].shift_wishes # None
                  /\ e.vacation_days = (IF r.vacation_days = None THEN <<>>
                                        ELSE r.vacation_days[1])
                  /\ e.forbidden_days = (IF r.forbidden_days = None THEN <<>>
                                         ELSE r.forbidden_days[1])
                  /\ e.vacation_shifts = (IF r.vacation_shifts = None THEN <<>>
                                          ELSE r.vacation_shifts[1])
                  /\ e.forbidden_shifts = (IF r.forbidden_shifts = None THEN <<>>
                                           ELSE r.forbidden_shifts[1])
        /\ raw[1].stats = None =>
              \A counter \in DOMAIN schedule[1].stats :
                  schedule[1].stats[counter] = 0

----------------------------------------------------------------------------
(* C13 *)

\* The keys that encode an employee of the decoded solution, a date of its
\* days list and a shift of its catalog
ExactKeys ==
    {VarKey(schedule[1].employees[i].id, DocDays[j], schedule[1].shifts[k].id) :
        i \in 1..Len(schedule[1].employees), j \in 1..Len(DocDays),
        k \in 1..Len(schedule[1].shifts)}

\* The entries the claim calls inert: any other key, and any key with value 0
InertKeys ==
    {k \in DOMAIN schedule[1].variables :
        k \notin ExactKeys \/ schedule[1].variables[k] = 0}

\* The fetched document without some entries of its variables map
WithoutKeys(dropped) ==
    [raw[1] EXCEPT !.variables =
        Some([k \in DOMAIN schedule[1].variables \ dropped |->
                 schedule[1].variables[k]])]

\* C13: the entries of the variables map whose key is not the exact
\* encoding of a cell and shift of the solution, and the entries with value
\* 0, change nothing: without them (one at a time or all together) the
\* decoder yields the same four derived sets and the table shows the same
\* assigned shifts in every cell and the same stats for every employee.
C13_StrayKeysChangeNothing ==
    rows # None =>
        \A dropped \in ({InertKeys} \cup {{k} : k \in InertKeys}) \ {{}} :
            LET clean == parseSolutionFile(WithoutKeys(dropped), timezoneOffset)
            IN  /\ clean.allDayOffWishCells = schedule[1].allDayOffWishCells
                /\ clean.fulfilledDayOffCells = schedule[1].fulfilledDayOffCells
                /\ clean.allShiftWishColors = schedule[1].allShiftWishColors
                /\ clean.fulfilledShiftWishCells = schedule[1].fulfilledShiftWishCells
                /\ \A i \in 1..Len(rows[1]) :
                      /\ getEmployeeStats(clean.employees[i], clean.days, clean.shifts,
                                          clean.variables) = rows[1][i].stats
                      /\ \A j \in 1..Len(DocDays) :
                            getShiftsForCell(clean.employees[i].id, clean.days[j],
                                             clean.shifts, clean.variables)
                                = rows[1][i].cells[j].shiftsForCell

\* A rendered table of a document whose variables hold a key without the
\* template's blanks, a key of a shift id outside the catalog, a key of an
\* unknown employee, a key of a date outside days, a key of a cell with
\* value 0 and one real assignment
C13_Witness ==
    /\ rows # None
    /\ StrayKeys \subseteq InertKeys
    /\ \E k \in InertKeys : k \in ExactKeys /\ schedule[1].variables[k] = 0
    /\ \E i \in 1..Len(rows[1]), j \in 1..Len(DocDays) :
          Len(rows[1][i].cells[j].shiftsForCell) = 1
    /\ \E i \in 1..Len(rows[1]) : rows[1][i].stats.totalShifts = 1

----------------------------------------------------------------------------
(* C14 *)

\* A document lacks one of variables, employees, shifts, days
LacksTopLevelField(doc) ==
    \/ doc.variables = None \/ doc.employees = None
    \/ doc.shifts = None \/ doc.days = None

\* C14 (as claimed): a document that lacks one of the four top-level keys
\* is rejected before decoding on every path: the upload never hands it to
\* onFileLoaded, it is never stored and never handed to parseSolutionFile.
C14_IncompleteDocumentIsRejectedEverywhere ==
    /\ pendingSolution # None => ~LacksTopLevelField(pendingSolution[1])
    /\ stored # None => ~LacksTopLevelField(stored[1])
    /\ raw # None => ~LacksTopLevelField(raw[1])

----------------------------------------------------------------------------
(* C15 *)

\* Fetch i of the batch failed: its response was not ok, or the decoder
\* threw on its document
FetchFailed(i) ==
    LET served == batch[1].fetches[i].served
    IN  /\ served # None
        /\ \/ served[1].status # 200
           \/ /\ served[1].solution # None
              /\ parseSolutionFileThrows(served[1].solution[1])

\* C15: every requested id has its fetch in flight from the start; the
\* batch succeeds only when no fetch is pending and none failed, and then
\* it holds one decoded schedule per requested id; as soon as one fetch has
\* failed the batch is in error, with no list at all.
C15_BatchIsAllOrNothing ==
    batch # None =>
        LET ids == batch[1].ids
            fetches == batch[1].fetches
            result == batch[1].result
        IN  /\ Len(fetches) = Len(ids)
            /\ (\E i \in 1..Len(ids) : FetchFailed(i))
                   => result = Some([status |-> "error", data |-> <<>>])
            /\ (result # None /\ result[1].status = "error")
                   => \E i \in 1..Len(ids) : FetchFailed(i)
            /\ (result # None /\ result[1].status # "error")
                   => /\ result[1].status = "success"
                      /\ \A i \in 1..Len(ids) : fetches[i].status = "fulfilled"
                      /\ Len(result[1].data) = Len(ids)
                      /\ \A i \in 1..Len(ids) :
                            /\ result[1].data[i].scheduleId = ids[i]
                            /\ result[1].data[i].employees
                                   = MapSeq(NormalizeEmployee,
                                       fetches[i].served[1].solution[1].employees[1])
            /\ (\A i \in 1..Len(ids) : fetches[i].status = "fulfilled")
                   => result # None

\* Two schedules were requested; one fetch has delivered a decodable
\* document, the other got a 404, and the batch is in error
C15_Witness ==
    /\ batch # None
    /\ Len(batch[1].ids) = 2
    /\ \E i, j \in 1..2 :
          /\ batch[1].fetches[i].status = "fulfilled"
          /\ batch[1].fetches[i].value # None
          /\ batch[1].fetches[j].served # None
          /\ batch[1].fetches[j].served[1].status = 404
    /\ batch[1].result = Some([status |-> "error", data |-> <<>>])

----------------------------------------------------------------------------
(* C16 *)

\* The colors, in wish order, of the catalog shifts named by the employee's
\* shift wishes for a day-of-month; a wish whose abbreviation is not in the
\* catalog gives none
ColorsWishedOn(employee, dayOfMonth) ==
    LET shifts == schedule[1].shifts
        resolved == SelectSeq(ShiftWishesOf(employee),
                        LAMBDA w : /\ w[1] = dayOfMonth
                                   /\ \E k \in 1..Len(shifts) :
                                          shifts[k].abbreviation = w[2])
    IN  [n \in 1..Len(resolved) |->
            shifts[CHOOSE k \in 1..Len(shifts) :
                      /\ shifts[k].abbreviation = resolved[n][2]
                      /\ \A l \in 1..(k - 1) :
                            shifts[l].abbreviation # resolved[n][2]].color]

\* C16 (as claimed): for every employee e and day d, allShiftWishColors
\* holds for cell (e,d) the colors, in wish order, of the catalog shifts
\* named by e's shift wishes for d's day-of-month, whether or not the day is
\* also a day-off wish, and holds no entry when no such wish resolves.
C16_WishColorsFollowCalendarDay ==
    schedule # None =>
        \A i \in 1..Len(schedule[1].employees), j \in 1..Len(DocDays) :
            LET e == schedule[1].employees[i]
                cell == CellKey(e.id, DocDays[j])
                colors == ColorsWishedOn(e, DayOfMonth(DocDays[j]))
            IN  IF colors = <<>>
                THEN cell \notin DOMAIN schedule[1].allShiftWishColors
                ELSE /\ cell \in DOMAIN schedule[1].allShiftWishColors
                     /\ schedule[1].allShiftWishColors[cell] = colors

----------------------------------------------------------------------------
(* C17 *)

\* A sequence without its k-th element
RemoveAt(arr, k) == SubSeq(arr, 1, k - 1) \o SubSeq(arr, k + 1, Len(arr))

\* The fetched document with the k-th shift wish of its i-th employee removed
WithoutShiftWish(i, k) ==
    [raw[1] EXCEPT !.employees = Some(
        [raw[1].employees[1] EXCEPT ![i] =
            [@ EXCEPT !.wishes = Some(
                [@[1] EXCEPT !.shift_wishes = Some(RemoveAt(@[1], k))])]])]

\* The shift wishes of employee i that name no shift of the catalog
UnmatchedWishes(i) ==
    LET e == schedule[1].employees[i]
    IN  IF ParseCellThrows(e) THEN {}
        ELSE {k \in 1..Len(ShiftWishesOf(e)) :
                \A c \in 1..Len(schedule[1].shifts) :
                    schedule[1].shifts[c].abbreviation # ShiftWishesOf(e)[k][2]}

\* C17 (as claimed): a shift wish whose abbreviation has no catalog entry
\* contributes no color and does not affect fulfillment: the document
\* without that entry decodes to the same four derived sets.
C17_UnmatchedWishChangesNothing ==
    schedule # None =>
        \A i \in 1..Len(schedule[1].employees) :
            \A k \in UnmatchedWishes(i) :
                LET other == parseSolutionFile(WithoutShiftWish(i, k), timezoneOffset)
                IN  /\ other.allShiftWishColors = schedule[1].allShiftWishColors
                    /\ other.fulfilledShiftWishCells = schedule[1].fulfilledShiftWishCells
                    /\ other.allDayOffWishCells = schedule[1].allDayOffWishCells
                    /\ other.fulfilledDayOffCells = schedule[1].fulfilledDayOffCells

----------------------------------------------------------------------------
(* C18 *)

\* C18 (as claimed): membership in allDayOffWishCells and membership in
\* fulfilledDayOffCells are independent: some document decodes to a cell
\* that is in allDayOffWishCells and not in fulfilledDayOffCells, and some
\* document decodes to a cell that is in fulfilledDayOffCells and not in
\* allDayOffWishCells.
C18_DayOffSetsAreIndependent ==
    /\ \E doc \in RawDocuments :
          LET sol == parseSolutionFile(doc, timezoneOffset)
          IN  sol.allDayOffWishCells \ sol.fulfilledDayOffCells # {}
    /\ \E doc \in RawDocuments :
          LET sol == parseSolutionFile(doc, timezoneOffset)
          IN  sol.fulfilledDayOffCells \ sol.allDayOffWishCells # {}

\* C18 (amended): a cell of allDayOffWishCells need not be in
\* fulfilledDayOffCells, but every cell of fulfilledDayOffCells is in
\* allDayOffWishCells.
C18_FulfilledDayOffIsADayOffWish ==
    schedule # None =>
        schedule[1].fulfilledDayOffCells \subseteq schedule[1].allDayOffWishCells

\* A decoded solution with a day-off wish cell that is fulfilled, one that
\* is not, and a cell without a day-off wish that has no shift either
C18_Witness ==
    /\ schedule # None
    /\ schedule[1].fulfilledDayOffCells # {}
    /\ schedule[1].allDayOffWishCells \ schedule[1].fulfilledDayOffCells # {}
    /\ \E i \in 1..Len(schedule[1].employees), j \in 1..Len(schedule[1].days) :
          LET e == schedule[1].employees[i]
              day == schedule[1].days[j]
          IN  /\ CellKey(e.id, toISODate(day)) \notin schedule[1].allDayOffWishCells
              /\ getShiftsForCell(e.id, day, schedule[1].shifts,
                                  schedule[1].variables) = <<>>

----------------------------------------------------------------------------
(* C19 *)

\* The elements of a list of the fetched document that may be absent
ListedIn(opt) == IF opt = None THEN {} ELSE {opt[1][n] : n \in 1..Len(opt[1])}

\* C19: for the day number the table passes (the 1-based position of the
\* day), unavailable(employee, day) is true iff the number is in
\* vacation_days or forbidden_days, and unavailable(employee, day, shift) is
\* true iff the pair (number, shift.abbreviation) is in vacation_shifts or
\* forbidden_shifts; neither answer depends on the other pair of lists.
C19_AvailabilityCheckIsExact ==
    rows # None =>
        \A i \in 1..Len(rows[1]), j \in 1..Len(DocDays) :
            LET r == raw[1].employees[1][i]
                cell == rows[1][i].cells[j]
            IN  /\ cell.isUnavailable
                    <=> j \in ListedIn(r.vacation_days) \cup ListedIn(r.forbidden_days)
                /\ \A k \in 1..Len(schedule[1].shifts) :
                      Includes(cell.unavailableShifts, schedule[1].shifts[k])
                          <=> <<j, schedule[1].shifts[k].abbreviation>>
                                  \in ListedIn(r.vacation_shifts)
                                       \cup ListedIn(r.forbidden_shifts)

\* A rendered table where day 1 is a vacation day without a blocked shift
\* and day 2 has a forbidden shift without being a blocked day
C19_Witness ==
    /\ rows # None
    /\ Len(DocDays) = 2
    /\ \E i \in 1..Len(rows[1]) :
          /\ rows[1][i].cells[1].isUnavailable
          /\ rows[1][i].cells[1].unavailableShifts = <<>>
          /\ ~rows[1][i].cells[2].isUnavailable
          /\ rows[1][i].cells[2].unavailableShifts # <<>>

----------------------------------------------------------------------------
(* C20 *)

\* The fetched document with no availability list on any employee
WithoutAvailability ==
    IF raw[1].employees = None THEN raw[1]
    ELSE [raw[1] EXCEPT !.employees = Some(
             [i \in 1..Len(raw[1].employees[1]) |->
                 [raw[1].employees[1][i] EXCEPT
                     !.vacation_days = None, !.forbidden_days = None,
                     !.vacation_shifts = None, !.forbidden_shifts = None]])]

\* C20: the availability lists are advisory.  The fetched document and the
\* same document without any vacation_days, forbidden_days, vacation_shifts
\* and forbidden_shifts decode to the same variables and the same four
\* derived sets, and the table shows the same assigned shifts in every cell
\* and the same stats for every employee; hence so do any two documents
\* that differ only in these lists.
C20_AvailabilityIsAdvisory ==
    rows # None =>
        LET other == parseSolutionFile(WithoutAvailability, timezoneOffset)
        IN  /\ other.variables = schedule[1].variables
            /\ other.allDayOffWishCells = schedule[1].allDayOffWishCells
            /\ other.fulfilledDayOffCells = schedule[1].fulfilledDayOffCells
            /\ other.allShiftWishColors = schedule[1].allShiftWishColors
            /\ other.fulfilledShiftWishCells = schedule[1].fulfilledShiftWishCells
            /\ \A i \in 1..Len(rows[1]) :
                  /\ getEmployeeStats(other.employees[i], other.days, other.shifts,
                                      other.variables) = rows[1][i].stats
                  /\ \A j \in 1..Len(DocDays) :
                        getShiftsForCell(other.employees[i].id, other.days[j],
                                         other.shifts, other.variables)
                            = rows[1][i].cells[j].shiftsForCell

\* A rendered table where an employee works on a blocked day, and works a
\* shift that is blocked for that day
C20_Witness ==
    /\ rows # None
    /\ \E i \in 1..Len(rows[1]), j \in 1..Len(DocDays) :
          /\ rows[1][i].cells[j].isUnavailable
          /\ rows[1][i].cells[j].shiftsForCell # <<>>
          /\ rows[1][i].stats.totalShifts >= 1
    /\ \E i \in 1..Len(rows[1]), j \in 1..Len(DocDays) :
          \E n \in 1..Len(rows[1][i].cells[j].shiftsForCell) :
              Includes(rows[1][i].cells[j].unavailableShifts,
                       rows[1][i].cells[j].shiftsForCell[n])

----------------------------------------------------------------------------
(* C21 *)

\* C21 (as claimed): for every date of the days list, under the platform's
\* timezone offset, the day-of-month the decoder matches against
\* day_off_wishes and shift_wishes (day.getDate()) is the day component of
\* the calendar date it writes into the cell key and the variable key
\* (day.toISOString().split('T')[0], the date string of the document), and
\* the cell key the table computes when it renders that date is the key the
\* decoder built for it.
C21_OneCalendarRuleForDates ==
    schedule # None =>
        \A j \in 1..Len(DocDays) :
            /\ toISODate(schedule[1].days[j]) = DocDays[j]
            /\ getDate(schedule[1].days[j], timezoneOffset) = DayOfMonth(DocDays[j])
            /\ rows # None =>
                  \A i \in 1..Len(rows[1]) :
                      rows[1][i].cells[j].cellKey
                          = CellKey(schedule[1].employees[i].id, DocDays[j])

----------------------------------------------------------------------------
(* C24 *)

\* C24 (as claimed): the day number the table passes to the availability
\* check for a column is the day-of-month of the column's date, so a column
\* is marked unavailable iff the day-of-month of its date is listed in the
\* employee's vacation_days or forbidden_days, also when the days list does
\* not start on the 1st of a month.
C24_AvailabilityFollowsCalendarDay ==
    rows # None =>
        \A i \in 1..Len(rows[1]), j \in 1..Len(DocDays) :
            rows[1][i].cells[j].isUnavailable
                <=> DayOfMonth(DocDays[j])
                        \in ListedIn(raw[1].employees[1][i].vacation_days)
                             \cup ListedIn(raw[1].employees[1][i].forbidden_days)

----------------------------------------------------------------------------
(* C25 *)

\* The only metadata entry with a schedule id
EntryOf(metadata, scheduleId) ==
    metadata.schedules[CHOOSE i \in EntriesOf(metadata, scheduleId) : TRUE]

\* The entries of the other schedules, in their order
OtherEntries(metadata, scheduleId) ==
    SelectSeq(metadata.schedules, LAMBDA s : s.scheduleId # scheduleId)

\* C25: after saveSchedule(caseId, id, seed, solution, autoSelect) the
\* metadata holds exactly one entry with scheduleId id, at the position of
\* the entry it had before if there was one, carrying the given seed and the
\* stats of the solution.  With autoSelect, selectedScheduleId is id, the
\* entry of id has isSelected true and every other entry has it false;
\* without autoSelect, selectedScheduleId and the entries of the other
\* schedules are as before.
C25_SaveScheduleEffect ==
    [][\A scheduleId \in RepositoryIds, seed \in Seeds, solution \in Solutions,
          autoSelect \in BOOLEAN :
          SaveScheduleStep(scheduleId, seed, solution, autoSelect) =>
              LET before == repository[DefaultCase].metadata
                  after == repository'[DefaultCase].metadata
              IN  /\ Cardinality(EntriesOf(after, scheduleId)) = 1
                  /\ EntriesOf(before, scheduleId) # {}
                        => /\ EntriesOf(before, scheduleId) = EntriesOf(after, scheduleId)
                           /\ Len(after.schedules) = Len(before.schedules)
                  /\ EntryOf(after, scheduleId).seed = seed
                  /\ EntryOf(after, scheduleId).stats = solution.stats
                  /\ autoSelect =>
                        /\ after.selectedScheduleId = Some(scheduleId)
                        /\ \A i \in 1..Len(after.schedules) :
                              after.schedules[i].isSelected
                                  <=> after.schedules[i].scheduleId = scheduleId
                  /\ ~autoSelect =>
                        /\ after.selectedScheduleId = before.selectedScheduleId
                        /\ OtherEntries(after, scheduleId)
                               = OtherEntries(before, scheduleId)]_vars

\* A save with autoSelect has updated, in place, the commented entry of a
\* schedule that was listed first of two, and has deselected the other
C25_Witness ==
    /\ lastCall.op = "saveSchedule"
    /\ lastCall.listed /\ lastCall.autoSelect
    /\ Len(TheCase.metadata.schedules) = 2
    /\ TheCase.metadata.schedules[1].scheduleId = lastCall.scheduleId
    /\ TheCase.metadata.schedules[1].comment # None
    /\ TheCase.metadata.schedules[1].stats # None
    /\ TheCase.metadata.selectedScheduleId = Some(lastCall.scheduleId)

----------------------------------------------------------------------------
(* C26 *)

\* C26 (as claimed): deleteSchedule(caseId, id) removes the file and the
\* metadata entry of id.  If id was the selected schedule,
\* selectedScheduleId becomes null and getSelectedSchedule returns null; if
\* it was not, selectedScheduleId and all other entries are unchanged; if no
\* file and no entry of id existed, nothing changes.  (The call has no path
\* on which it raises an error for a missing id.)
C26_DeleteScheduleEffect ==
    [][\A scheduleId \in RepositoryIds :
          DeleteScheduleStep(scheduleId) =>
              LET before == repository[DefaultCase]
                  after == repository'[DefaultCase]
              IN  /\ scheduleId \notin DOMAIN after.files
                  /\ EntriesOf(after.metadata, scheduleId) = {}
                  /\ before.metadata.selectedScheduleId = Some(scheduleId) =>
                        /\ after.metadata.selectedScheduleId = None
                        /\ getSelectedSchedule(after) = None
                  /\ before.metadata.selectedScheduleId # Some(scheduleId) =>
                        /\ after.metadata.selectedScheduleId
                               = before.metadata.selectedScheduleId
                        /\ after.metadata.schedules
                               = OtherEntries(before.metadata, scheduleId)
                  /\ (/\ scheduleId \notin DOMAIN before.files
                      /\ EntriesOf(before.metadata, scheduleId) = {})
                        => after = before]_vars

----------------------------------------------------------------------------
(* C27 *)

\* C27 (as claimed): every schedule the batch fetch delivers to the
\* comparison carries the scheduleId it was requested under and the seed
\* that the metadata records for that schedule.
C27_DeliveredSchedulesAreTagged ==
    (batch # None /\ batch[1].result # None /\ batch[1].result[1].status = "success") =>
        LET data == batch[1].result[1].data
        IN  /\ Len(data) = Len(batch[1].ids)
            /\ \A n \in 1..Len(data) :
                  /\ data[n].scheduleId = batch[1].ids[n]
                  /\ \E i \in EntriesOf(TheCase.metadata, data[n].scheduleId) :
                        data[n].seed = Some(TheCase.metadata.schedules[i].seed)

----------------------------------------------------------------------------
(* C28 *)

\* C28 (as claimed): the two selection records agree.  For every schedule s
\* in the metadata, s.isSelected is true iff selectedScheduleId is
\* s.scheduleId.
C28_SelectionRecordsAgree ==
    \A i \in 1..Len(TheCase.metadata.schedules) :
        TheCase.metadata.schedules[i].isSelected
            <=> TheCase.metadata.selectedScheduleId
                    = Some(TheCase.metadata.schedules[i].scheduleId)

----------------------------------------------------------------------------
(* C29 *)

\* C29 (as claimed): selectedScheduleId is null or the id of a schedule that
\* is listed in the metadata and has a stored solution, so
\* getSelectedSchedule returns null only when no schedule is selected.
C29_SelectedScheduleExists ==
    /\ TheCase.metadata.selectedScheduleId # None =>
          /\ EntriesOf(TheCase.metadata, TheCase.metadata.selectedScheduleId[1]) # {}
          /\ TheCase.metadata.selectedScheduleId[1] \in DOMAIN TheCase.files
    /\ getSelectedSchedule(TheCase) = None => TheCase.metadata.selectedScheduleId = None

----------------------------------------------------------------------------
(* C30 *)

\* The overlapping saves have all completed
SavesCompleted ==
    inflight # <<>> /\ \A i \in 1..Len(inflight) : inflight[i].pc = "done"

\* C30 (as claimed): once two saveSchedule calls for different ids that
\* ran concurrently have both completed, the metadata lists both schedules,
\* each with its own seed, and every schedule whose solution file exists is
\* listed.
C30_ConcurrentSavesKeepBoth ==
    SavesCompleted =>
        /\ \A i \in 1..Len(inflight) :
              \E k \in EntriesOf(TheCase.metadata, inflight[i].scheduleId) :
                  TheCase.metadata.schedules[k].seed = inflight[i].seed
        /\ \A scheduleId \in DOMAIN TheCase.files :
              EntriesOf(TheCase.metadata, scheduleId) # {}


C22_CasesAreSeparated ==
    [][\A A \in CaseIds :
          (lastCall'.op # "none" /\ lastCall'.caseId = A) =>
              /\ \A B \in CaseIds \ {A} :
                    /\ repository'[B] = repository[B]
                    /\ jobs'[B] = jobs[B]
                    /\ globalWishes'[B] = globalWishes[B]
              /\ lastCall'.op = "GET global-wishes-and-blocked" =>
                    lastCall'.returned = globalWishes[A]
              /\ lastCall'.op = "GET schedule" =>
                    lastCall'.returned = <<repository[A].metadata>>
              /\ lastCall'.op = "GET solver jobs" =>
                    lastCall'.returned = jobs[A]]_vars

====
